---- MODULE Spec2Model ----
(***************************************************************************)
(* Model of the record-to-graph normalization engine of src/src/prepare.py *)
(* (BatchedWriter and the papers pass of the driver), of the generators of *)
(* src/src/generate.py and of the pagination of S2AcademicAPI.             *)
(*                                                                         *)
(* The specifications that share the module:                               *)
(*   SpecWriter : one BatchedWriter driven through csv.DictWriter          *)
(*                (writeheader / writerow), writelines and close;          *)
(*   Spec       : the papers pass, every sink a BatchedWriter.             *)
(*   SpecCitations : the citations pass over explicit input files.         *)
(*   SpecReviews   : the reviews block of generate.py over prepared files. *)
(*   SpecCities    : the cities block of generate.py over API responses.   *)
(*   SpecCitationPages : S2AcademicAPI.retrieve_citations against a server.*)
(*   SpecPaperSearch   : S2AcademicAPI.bulk_retrieve_papers over pages.    *)
(***************************************************************************)
EXTENDS Integers, Sequences, FiniteSets, TLC

\* ------------------------------------------------------------------ bounds
\* largest batch size a writer of SpecWriter is constructed with
MaxBatch == 3
\* most write calls made on the writer of SpecWriter
MaxWrites == 7
\* most lines the record source reads in one papers run
MaxRecords == 2
\* batch size the papers run is started with (--batch-size)
RunBatchSize == 2
\* most lines the input files of a citations run hold together
MaxInputLines == 3
\* most input files a citations run is given
MaxFiles == 2
\* most paper rows, author rows and authors per paper of a prepared output
\* that the reviews block reads
MaxPapers == 2
MaxPool == 6
MaxCoauthors == 2
\* default of prepare.py's --batch-size
DefaultBatchSize == 10000
\* most countries of an API response and most cities of a country
MaxCountries == 2
MaxCities == 2
\* "for _ in range(5)" of the cities block
MaxAttempts == 5
\* S2AcademicAPI.MAX_BATCH_SIZE, S2AcademicAPI.MAX_DATA_RETRIEVAL
MAX_BATCH_SIZE == 1000
MAX_DATA_RETRIEVAL == 10000
\* how far the citation counts of the papers asked for lie from 0 and from
\* MAX_DATA_RETRIEVAL
MaxOver == 2
\* most result pages of a search, most papers of a page, largest limit
MaxPages == 3
MaxPageSize == 2
MaxLimit == 5

\* ------------------------------------------------------------------ values
\* Python's None, and the absence of a key in a decoded JSON object
None == "None"
Missing == "Missing"

\* A decoded paper record.  Only the keys the pass branches on are kept;
\* url stands for the keys read with paper[...] for the Publication row.
\* A key that may be absent or null carries a tag next to its content.
Rec(pid, url, year, fos, authors, venue, journal) ==
    [paperId |-> pid, url |-> url, year |-> year, fieldsOfStudy |-> fos,
     authors |-> authors, publicationVenue |-> venue, journal |-> journal]

NoPaper == Rec(None, None, 0, [tag |-> "None", items |-> <<>>], <<>>,
               [tag |-> "None", type |-> None, id |-> None],
               [tag |-> "None", volume |-> None, pages |-> None, city |-> None])

VARIABLES
    \* SpecWriter: the writer object, the number of write calls made on it,
    \* the last operation and how it ended
    bw, wcalls, wop, wres,
    \* SpecWriter: the filename template the writer was constructed with
    wfile,
    \* Spec: position of the driver, the record in hand, the index of the
    \* author entry in hand, the sinks, the unique_* sets, the log, the
    \* number of records delivered, the records delivered so far, and the
    \* exception that ended the run
    pc, paper, ai, sinks, unique, log, nread, seen, exc,
    \* SpecCitations: the input files (each a list of lines) and the place of
    \* the generator of yieldFromFiles in them: file in hand, lines read of it
    input_files, fi, li,
    \* SpecReviews (generate.py, "reviews"): the prepared files read, the
    \* locals of the reviews block and the Reviewed rows written
    prepared, author_pool, wi, last_author, pi, paper_id, this_paper_authors,
    num_reviews, reviewers, reviewer, reviewed, total_papers, total_reviews,
    \* SpecCities (generate.py, "cities"): the requests made, the decoded
    \* response, the country and the city in hand, the cities set and the
    \* City rows written
    attempt, response, ci, cj, cities, city_rows,
    \* SpecCitationPages, SpecPaperSearch (S2AcademicAPI): the stream flag,
    \* the limit, the server asked, the last response, the requests issued,
    \* the items yielded, the list built up (all_data, result) and the value
    \* returned
    stream, limit, server, data, requests, yielded, result, returned

wvars == <<bw, wcalls, wop, wres, wfile>>
svars == <<input_files, fi, li>>
rvars == <<prepared, author_pool, wi, last_author, pi, paper_id, this_paper_authors,
           num_reviews, reviewers, reviewer, reviewed, total_papers, total_reviews>>
cvars == <<attempt, response, ci, cj, cities, city_rows>>
avars == <<stream, limit, server, data, requests, yielded, result, returned>>
\* the variables of generate.py and of the API connector
xvars == <<rvars, cvars, avars>>
pvars == <<pc, paper, ai, sinks, unique, log, nread, seen, exc>>
vars == <<bw, wcalls, wop, wres, wfile, pc, paper, ai, sinks, unique, log, nread, seen, exc,
          input_files, fi, li, xvars>>

\* ================================================================ BatchedWriter
\* A line handed to write(): csv.DictWriter hands over one whole line per
\* writeheader()/writerow() call.  header tells the two apart, row is the
\* content (the column names for a header).
HeaderLine(fieldnames) == [header |-> TRUE, row |-> fieldnames]
RowLine(row) == [header |-> FALSE, row |-> row]

\* the object before __init__ has run / after __init__ raised
NoWriter ==
    [made |-> FALSE, batch_size |-> 0, batch_number |-> 0, current_batch_size |-> 0,
     is_closed |-> FALSE, output_open |-> FALSE, files |-> <<>>]

\* BatchedWriter.__init__ past the placeholder check: batch 1 is opened "w"
BWNew(batch_size) ==
    [made |-> TRUE, batch_size |-> batch_size, batch_number |-> 1,
     current_batch_size |-> 0, is_closed |-> FALSE, output_open |-> TRUE,
     files |-> << <<>> >>]

\* the rollover test of write(), `>` in place of `>=`
BWFullOffByOne(w) == w.current_batch_size > w.batch_size

\* write(): "if self.current_batch_size >= self.batch_size"
BWFull(w) == w.current_batch_size >= w.batch_size

\* the rollover without "batch_number += 1": the same file name is opened
\* again in mode "w", which empties the file
BWRollSameFile(w) ==
    [w EXCEPT !.current_batch_size = 0,
              !.files[w.batch_number] = <<>>]

\* the rollover block of write(): close, batch_number += 1, counter = 0, open
BWRoll(w) ==
    [w EXCEPT !.batch_number = @ + 1,
              !.current_batch_size = 0,
              !.files = Append(@, <<>>)]

\* write() on a writer that is not closed
BWWrite(w, line) ==
    LET w1 == IF BWFull(w) THEN BWRoll(w) ELSE w
    IN  [w1 EXCEPT !.files[w1.batch_number] = Append(@, line),
                   !.current_batch_size = @ + 1]

\* close() that closes the batch file and forgets "_is_closed = True"
BWCloseForgetsFlag(w) == [w EXCEPT !.output_open = FALSE]

\* close(): idempotent
BWClose(w) ==
    IF w.is_closed THEN w
    ELSE [w EXCEPT !.is_closed = TRUE, !.output_open = FALSE]

\* writelines(): write() for each line in turn (writer not closed)
RECURSIVE BWWriteLines(_, _)
BWWriteLines(w, lines) ==
    IF lines = <<>> THEN w
    ELSE BWWriteLines(BWWrite(w, Head(lines)), Tail(lines))

\* ------------------------------------------------------ SpecWriter actions
\* the batch sizes argparse's type=int lets through, up to the bound
BatchSizes == -1 .. MaxBatch

\* the record source is not read
SourceIdle == input_files = <<>> /\ fi = 0 /\ li = 0

\* a row of csv.DictReader: its cells, and whether the first line of its file
\* was the header row (ok) or a data row taken for the fieldnames
CsvRow(ok, row) == [ok |-> ok, row |-> row]
NoRow == CsvRow(TRUE, [paperID |-> 0, authorID |-> 0])

\* the reviews block of generate.py is not run
ReviewsIdle ==
    /\ prepared = <<>> /\ author_pool = {} /\ wi = 0 /\ last_author = NoRow /\ pi = 0
    /\ paper_id = 0 /\ this_paper_authors = {} /\ num_reviews = 0 /\ reviewers = {}
    /\ reviewer = 0 /\ reviewed = <<>> /\ total_papers = 0 /\ total_reviews = 0

\* the cities block of generate.py is not run
CitiesIdle ==
    /\ attempt = 0 /\ response = [json |-> FALSE, data |-> <<>>] /\ ci = 0 /\ cj = 0 /\ cities = {} /\ city_rows = <<>>

\* no method of S2AcademicAPI is called
ConnectorIdle ==
    /\ stream = FALSE /\ limit = <<>> /\ server = <<>> /\ data = <<>>
    /\ requests = <<>> /\ yielded = <<>> /\ result = <<>> /\ returned = <<>>

\* neither generate.py nor the API connector is run
GenerateIdle == ReviewsIdle /\ CitiesIdle /\ ConnectorIdle

WriterIdle ==
    /\ pc = "off" /\ paper = NoPaper /\ ai = 0 /\ sinks = <<>> /\ unique = <<>>
    /\ log = <<>> /\ nread = 0 /\ seen = <<>> /\ exc = None
    /\ SourceIdle /\ GenerateIdle

\* filename templates a writer is constructed with, and no template yet
NoFile == "none"
Templates == {"edges-citations-{batch}.csv", "edges-citations.csv"}

\* the placeholder test dropped: every template passes
HasPlaceholderAlways(file) == TRUE

\* __init__: "{batch}" in self.file
HasPlaceholder(file) == file = "edges-citations-{batch}.csv"

InitWriter ==
    /\ bw = NoWriter /\ wcalls = 0 /\ wop = "none" /\ wres = "ok" /\ wfile = NoFile
    /\ WriterIdle

\* BatchedWriter(file, batch_size)
WOpen ==
    /\ ~bw.made /\ wop = "none"
    /\ \E file \in Templates, b \in BatchSizes :
          /\ wfile' = file
          /\ IF HasPlaceholder(file)
             THEN bw' = BWNew(b) /\ wres' = "ok"
             ELSE bw' = NoWriter /\ wres' = "ValueError"
    /\ wop' = "init" /\ wcalls' = wcalls
    /\ UNCHANGED <<pvars, svars, xvars>>

\* the line of the n-th write call: its ordinal stands for its text
WLine(is_header, n) ==
    IF is_header THEN HeaderLine(<<n>>) ELSE RowLine(<<n>>)

\* csv.DictWriter(...).writeheader(), as the driver does it: first thing
WHeader ==
    /\ bw.made /\ wcalls = 0 /\ ~bw.is_closed
    /\ bw' = BWWrite(bw, WLine(TRUE, 1))
    /\ wcalls' = 1 /\ wop' = "write" /\ wres' = "ok" /\ wfile' = wfile
    /\ UNCHANGED <<pvars, svars, xvars>>

\* csv.DictWriter(...).writerow(row)
WRow ==
    /\ bw.made /\ wcalls < MaxWrites
    /\ wcalls' = wcalls + 1 /\ wop' = "write" /\ wfile' = wfile
    /\ IF bw.is_closed
       THEN bw' = bw /\ wres' = "ValueError"
       ELSE bw' = BWWrite(bw, WLine(FALSE, wcalls + 1)) /\ wres' = "ok"
    /\ UNCHANGED <<pvars, svars, xvars>>

\* writelines([l1, l2])
WWriteLines ==
    /\ bw.made /\ wcalls + 2 <= MaxWrites
    /\ wcalls' = wcalls + 2 /\ wop' = "writelines" /\ wfile' = wfile
    /\ IF bw.is_closed
       THEN bw' = bw /\ wres' = "ValueError"
       ELSE /\ bw' = BWWriteLines(bw, <<WLine(FALSE, wcalls + 1), WLine(FALSE, wcalls + 2)>>)
            /\ wres' = "ok"
    /\ UNCHANGED <<pvars, svars, xvars>>

\* close(), also what __exit__ calls
WClose ==
    /\ bw.made
    /\ wop # "close" \/ ~bw.is_closed
    /\ bw' = BWClose(bw)
    /\ wop' = "close" /\ wres' = "ok" /\ wcalls' = wcalls /\ wfile' = wfile
    /\ UNCHANGED <<pvars, svars, xvars>>

NextWriter == WOpen \/ WHeader \/ WRow \/ WWriteLines \/ WClose

SpecWriter == InitWriter /\ [][NextWriter]_vars

\* ================================================================ papers pass
\* ---------------------------------------------------------------- records
FosList(items) == [tag |-> "list", items |-> items]
FosNone == [tag |-> "None", items |-> <<>>]
Venue(type, id) == [tag |-> "obj", type |-> type, id |-> id]
VenueNone == [tag |-> "None", type |-> None, id |-> None]
Journal(volume, pages, city) == [tag |-> "obj", volume |-> volume, pages |-> pages, city |-> city]
JournalNone == [tag |-> "None", volume |-> None, pages |-> None, city |-> None]
JournalMissing == [tag |-> "Missing", volume |-> None, pages |-> None, city |-> None]
Author(id, affiliations) == [authorId |-> id, affiliations |-> affiliations]

\* the author lists the records are drawn with
AuthorLists ==
    { <<>>,
      <<Author(None, <<"o1">>)>>,
      <<Author(None, <<"o1">>), Author("a1", <<"o1">>)>>,
      <<Author("a1", <<"o1">>)>>,
      <<Author("a1", <<"o1">>), Author("a2", <<"o1", "o2">>)>> }

\* the (venue, journal sub-object) pairs the records are drawn with
VenueShapes ==
    { <<Venue("journal", "v1"), Journal("1", "1-9", Missing)>>,
      <<Venue("journal", "v1"), Journal("1", Missing, Missing)>>,
      <<Venue("journal", "v1"), Journal("2", "1-9", Missing)>>,
      <<Venue("journal", "v1"), JournalMissing>>,
      <<Venue("journal", "v1"), JournalNone>>,
      <<Venue("conference", "v1"), JournalMissing>>,
      <<Venue("conference", "v1"), JournalNone>>,
      <<Venue("conference", "v1"), Journal("1", "1-9", Missing)>>,
      <<Venue("conference", "v2"), Journal("1", Missing, Missing)>>,
      <<Venue("workshop", "v1"), Journal("1", "1-9", "c1")>>,
      <<Venue("workshop", "v1"), Journal("1", "1-9", Missing)>>,
      <<Venue("workshop", "v1"), JournalMissing>>,
      <<Venue("workshop", "v2"), Journal("1", Missing, None)>>,
      <<Venue("book", "v1"), Journal("1", "1-9", Missing)>>,
      <<Venue("book", "v1"), JournalMissing>>,
      <<VenueNone, JournalMissing>> }

\* the records the source may deliver
Records ==
    { Rec(pid, "u", 2024, FosList(<<"f1">>), au, Venue("journal", "v1"),
          Journal("1", "1-9", Missing)) : pid \in {"p1", "p2"}, au \in AuthorLists }
    \cup { Rec("p1", "u", 2024, fos, <<Author("a1", <<"o1">>)>>, Venue("journal", "v1"),
               Journal("1", "1-9", Missing)) :
             fos \in {FosNone, FosList(<<>>), FosList(<<"f1", "f2">>)} }
    \cup { Rec("p1", Missing, 2024, FosList(<<"f1">>), <<Author("a1", <<"o1">>)>>,
               Venue("journal", "v1"), Journal("1", "1-9", Missing)) }
    \cup { Rec("p2", "u", 2024, FosList(<<"f1">>), <<Author("a1", <<"o1">>)>>, vs[1], vs[2]) :
             vs \in VenueShapes }
    \cup { Rec("p1", "u", 2025, FosList(<<"f2">>), <<Author("a2", <<>>)>>,
               Venue("conference", "v1"), JournalMissing) }

\* ---------------------------------------------------------------- sinks
\* the csv.DictWriter objects of the papers branch, in order of creation
SinkNames ==
    { "papers", "fieldsofstudy", "proceedings", "journalvolumes", "journals",
      "workshops", "conferences", "cities", "authors", "organizations",
      "hasfieldofstudy", "wrote", "mainauthor", "isaffiliatedwith", "reviewed",
      "ispublishedinjournal", "ispublishedinproceedings", "iseditionofjournal",
      "iseditionofconference", "iseditionofworkshop", "isheldin" }

\* fieldnames= of each DictWriter (the columns the model keeps)
FieldNames(s) ==
    CASE s = "papers" -> <<"paperID", "url", "year">>
      [] s = "fieldsofstudy" -> <<"name">>
      [] s = "proceedings" -> <<"proceedingsID", "year">>
      [] s = "journalvolumes" -> <<"journalVolumeID", "year", "volume">>
      [] s = "journals" -> <<"journalID">>
      [] s = "workshops" -> <<"workshopID">>
      [] s = "conferences" -> <<"conferenceID">>
      [] s = "cities" -> <<"name">>
      [] s = "authors" -> <<"authorID">>
      [] s = "organizations" -> <<"name">>
      [] s = "hasfieldofstudy" -> <<"paperID", "fieldOfStudy">>
      [] s = "wrote" -> <<"paperID", "authorID">>
      [] s = "mainauthor" -> <<"paperID", "authorID">>
      [] s = "isaffiliatedwith" -> <<"authorID", "organization">>
      [] s = "reviewed" -> <<"paperID", "authorID">>
      [] s = "ispublishedinjournal" -> <<"paperID", "journalVolumeID", "pages">>
      [] s = "ispublishedinproceedings" -> <<"paperID", "proceedingsID", "pages">>
      [] s = "iseditionofjournal" -> <<"journalVolumeID", "journalID">>
      [] s = "iseditionofconference" -> <<"proceedingsID", "conferenceID">>
      [] s = "iseditionofworkshop" -> <<"proceedingsID", "workshopID">>
      [] OTHER -> <<"proceedingsID", "city">>

\* csv.DictWriter(BatchedWriter(...), fieldnames=...) followed by writeheader()
OpenSink(s, batch_size) == BWWrite(BWNew(batch_size), HeaderLine(FieldNames(s)))

\* <writer>.writerow(row): one write() on the sink's BatchedWriter
WriteRow(sk, s, row) == [sk EXCEPT ![s] = BWWrite(@, RowLine(row))]

\* the unique_* sets, all empty
EmptyUnique ==
    [fields_of_study |-> {}, proceedings_ids |-> {}, journal_volume_ids |-> {},
     journal_ids |-> {}, workshop_ids |-> {}, conference_ids |-> {},
     city_names |-> {}, author_ids |-> {}, organization_names |-> {}]

\* json.dumps(list(key)) of a two-part key: the text, token by token
JsonDumps(key) == <<"[", key[1], ",", key[2], "]">>

\* dict.get(k): None for an absent key
PyGet(v) == IF v = Missing THEN None ELSE v

\* the running state a loop body threads through: sinks, sets, log and the
\* exception raised (None while none was)
St(s, u, l, e) == [s |-> s, u |-> u, l |-> l, e |-> e]
Raise(st, e) == [st EXCEPT !.e = e]

Warning(msg) == [level |-> "WARNING", msg |-> msg]
Success(msg) == [level |-> "SUCCESS", msg |-> msg]

\* ---------------------------------------------------------------- loop bodies
\* "if not fos in unique_fields_of_study"
FieldUnseen(u, fos) == fos \notin u.fields_of_study

\* the loop turn with unique_fields_of_study.add(fos) ahead of the membership
\* test: the field is always found in the set and its node row never written
FieldStepAddFirst(st, pid, fos) ==
    LET st0 == [st EXCEPT !.u.fields_of_study = @ \cup {fos}]
        st1 == IF FieldUnseen(st0.u, fos)
               THEN [st0 EXCEPT !.s = WriteRow(@, "fieldsofstudy", [name |-> fos])]
               ELSE st0
    IN  [st1 EXCEPT !.s = WriteRow(@, "hasfieldofstudy", [paperID |-> pid, fieldOfStudy |-> fos])]

\* one turn of "for fos in paper['fieldsOfStudy']"
FieldStep(st, pid, fos) ==
    LET st1 == IF FieldUnseen(st.u, fos)
               THEN [st EXCEPT !.s = WriteRow(@, "fieldsofstudy", [name |-> fos]),
                               !.u.fields_of_study = @ \cup {fos}]
               ELSE st
    IN  [st1 EXCEPT !.s = WriteRow(@, "hasfieldofstudy", [paperID |-> pid, fieldOfStudy |-> fos])]

RECURSIVE FieldLoop(_, _, _)
FieldLoop(st, pid, items) ==
    IF items = <<>> THEN st
    ELSE FieldLoop(FieldStep(st, pid, Head(items)), pid, Tail(items))

\* "if not affiliation in unique_organization_names"
OrganizationUnseen(u, name) == name \notin u.organization_names

\* one turn of "for affiliation in author['affiliations']"
AffiliationStep(st, aid, affiliation) ==
    LET st1 == IF OrganizationUnseen(st.u, affiliation)
               THEN [st EXCEPT !.s = WriteRow(@, "organizations", [name |-> affiliation]),
                               !.u.organization_names = @ \cup {affiliation}]
               ELSE st
    IN  [st1 EXCEPT !.s = WriteRow(@, "isaffiliatedwith",
                                   [authorID |-> aid, organization |-> affiliation])]

RECURSIVE AffiliationLoop(_, _, _)
AffiliationLoop(st, aid, items) ==
    IF items = <<>> THEN st
    ELSE AffiliationLoop(AffiliationStep(st, aid, Head(items)), aid, Tail(items))

\* the None test dropped: no author entry is skipped
AuthorIdNeverNone(author) == FALSE

\* "if author['authorId'] is None"
AuthorIdIsNone(author) == author.authorId = None

\* the membership test dropped: every author entry counts as new
AuthorUnseenAlways(u, aid) == TRUE

\* "if not author['authorId'] in unique_author_ids"
AuthorUnseen(u, aid) == aid \notin u.author_ids

\* one turn of "for author in paper['authors']"
AuthorStep(st, pid, author) ==
    IF AuthorIdIsNone(author)
    THEN [st EXCEPT !.l = Append(@, Warning("Author ID is None for author"))]
    ELSE LET st1 == IF AuthorUnseen(st.u, author.authorId)
                    THEN [st EXCEPT !.s = WriteRow(@, "authors", [authorID |-> author.authorId]),
                                    !.u.author_ids = @ \cup {author.authorId}]
                    ELSE st
             st2 == [st1 EXCEPT !.s = WriteRow(@, "wrote",
                                               [paperID |-> pid, authorID |-> author.authorId])]
         IN  AffiliationLoop(st2, author.authorId, author.affiliations)

\* "main_author = paper['authors'][0]" and the MainAuthor row
MainAuthorStep(st, p) ==
    IF p.authors = <<>> THEN Raise(st, "IndexError")
    ELSE [st EXCEPT !.s = WriteRow(@, "mainauthor",
                                   [paperID |-> p.paperId, authorID |-> p.authors[1].authorId])]

\* subscripting paper['journal'][key]: the exception it raises, or None
JournalSubscript(j, v) ==
    IF j.tag = "Missing" THEN "KeyError"
    ELSE IF j.tag = "None" THEN "TypeError"
    ELSE IF v = Missing THEN "KeyError"
    ELSE None

\* paper.get('journal', {}).get('pages'): the exception it raises, or None
JournalGetPages(j) == IF j.tag = "None" THEN "AttributeError" ELSE None

\* the value of paper.get('journal', {}).get('pages') when it raises nothing
PagesOf(j) == IF j.tag = "obj" THEN PyGet(j.pages) ELSE None

\* "if venue['type'] == 'journal'", 'conference', 'workshop'
IsJournal(venue) == venue.type = "journal"
\* the conference test letting journal venues through as well
IsConferenceOrJournal(venue) == venue.type \in {"conference", "journal"}
IsConference(venue) == venue.type = "conference"
IsWorkshop(venue) == venue.type = "workshop"

\* body of "if venue['type'] == 'journal'"
JournalBranch(st, p) ==
    LET venue == p.publicationVenue
        st1 == IF venue.id \notin st.u.journal_ids
               THEN [st EXCEPT !.s = WriteRow(@, "journals", [journalID |-> venue.id]),
                               !.u.journal_ids = @ \cup {venue.id}]
               ELSE st
        e == JournalSubscript(p.journal, p.journal.volume)
        journal_volume_id == <<venue.id, p.journal.volume>>
        st2 == IF journal_volume_id \notin st1.u.journal_volume_ids
               THEN [st1 EXCEPT
                       !.s = WriteRow(
                               WriteRow(@, "journalvolumes",
                                        [journalVolumeID |-> JsonDumps(journal_volume_id),
                                         year |-> p.year, volume |-> p.journal.volume]),
                               "iseditionofjournal",
                               [journalVolumeID |-> JsonDumps(journal_volume_id),
                                journalID |-> venue.id]),
                       !.u.journal_volume_ids = @ \cup {journal_volume_id}]
               ELSE st1
    IN  IF e # None THEN Raise(st1, e)
        ELSE [st2 EXCEPT !.s = WriteRow(@, "ispublishedinjournal",
                                        [paperID |-> p.paperId,
                                         journalVolumeID |-> JsonDumps(journal_volume_id),
                                         pages |-> PyGet(p.journal.pages)])]

\* str(key) of a two-part key: the text, token by token
StrTuple(key) == <<"(", key[1], ",", key[2], ")">>

\* the IsPublishedInProceedings row keyed by str(proceedings_id) where the
\* node row has json.dumps(list(proceedings_id))
PublishedInProceedingsStr(st, p, proceedings_id) ==
    IF JournalGetPages(p.journal) # None THEN Raise(st, JournalGetPages(p.journal))
    ELSE [st EXCEPT !.s = WriteRow(@, "ispublishedinproceedings",
                                   [paperID |-> p.paperId,
                                    proceedingsID |-> StrTuple(proceedings_id),
                                    pages |-> PagesOf(p.journal)])]

\* the ispublishedinproceedings.writerow(...) closing both proceedings branches
PublishedInProceedings(st, p, proceedings_id) ==
    IF JournalGetPages(p.journal) # None THEN Raise(st, JournalGetPages(p.journal))
    ELSE [st EXCEPT !.s = WriteRow(@, "ispublishedinproceedings",
                                   [paperID |-> p.paperId,
                                    proceedingsID |-> JsonDumps(proceedings_id),
                                    pages |-> PagesOf(p.journal)])]

\* body of "if venue['type'] == 'conference'"
ConferenceBranch(st, p) ==
    LET venue == p.publicationVenue
        st1 == IF venue.id \notin st.u.conference_ids
               THEN [st EXCEPT !.s = WriteRow(@, "conferences", [conferenceID |-> venue.id]),
                               !.u.conference_ids = @ \cup {venue.id}]
               ELSE st
        proceedings_id == <<venue.id, p.year>>
        st2 == IF proceedings_id \notin st1.u.proceedings_ids
               THEN [st1 EXCEPT
                       !.s = WriteRow(
                               WriteRow(
                                 WriteRow(@, "proceedings",
                                          [year |-> p.year,
                                           proceedingsID |-> JsonDumps(proceedings_id)]),
                                 "iseditionofconference",
                                 [proceedingsID |-> JsonDumps(proceedings_id),
                                  conferenceID |-> venue.id]),
                               "isheldin",
                               [proceedingsID |-> JsonDumps(proceedings_id), city |-> None]),
                       !.u.proceedings_ids = @ \cup {proceedings_id}]
               ELSE st1
    IN  PublishedInProceedings(st2, p, proceedings_id)

\* body of "if venue['type'] == 'workshop'"
WorkshopBranch(st, p) ==
    LET venue == p.publicationVenue
        st1 == IF venue.id \notin st.u.workshop_ids
               THEN [st EXCEPT !.s = WriteRow(@, "workshops", [workshopID |-> venue.id]),
                               !.u.workshop_ids = @ \cup {venue.id}]
               ELSE st
        proceedings_id == <<venue.id, p.year>>
        unseen == proceedings_id \notin st1.u.proceedings_ids
        \* proceedings row, set update and IsEditionOfWorkshop row
        st2 == [st1 EXCEPT
                  !.s = WriteRow(
                          WriteRow(@, "proceedings",
                                   [year |-> p.year,
                                    proceedingsID |-> JsonDumps(proceedings_id)]),
                          "iseditionofworkshop",
                          [proceedingsID |-> JsonDumps(proceedings_id),
                           workshopID |-> venue.id]),
                  !.u.proceedings_ids = @ \cup {proceedings_id}]
        \* paper["journal"]["city"] is evaluated before isheldin.writerow
        e == JournalSubscript(p.journal, p.journal.city)
        st3 == [st2 EXCEPT !.s = WriteRow(@, "isheldin",
                                          [proceedingsID |-> JsonDumps(proceedings_id),
                                           city |-> p.journal.city])]
    IN  IF ~unseen THEN PublishedInProceedings(st1, p, proceedings_id)
        ELSE IF e # None THEN Raise(st2, e)
        ELSE PublishedInProceedings(st3, p, proceedings_id)

\* lines 291-378: venue = paper["publicationVenue"] and the three ifs in turn
VenueStep(st, p) ==
    LET venue == p.publicationVenue
        a == IF IsJournal(venue) THEN JournalBranch(st, p) ELSE st
        b == IF a.e = None /\ IsConference(venue) THEN ConferenceBranch(a, p) ELSE a
        c == IF b.e = None /\ IsWorkshop(venue) THEN WorkshopBranch(b, p) ELSE b
    IN  IF venue.tag = "None" THEN Raise(st, "TypeError") ELSE c

\* ---------------------------------------------------------------- Spec actions
WriterUnused ==
    bw = NoWriter /\ wcalls = 0 /\ wop = "none" /\ wres = "ok" /\ wfile = NoFile

Init ==
    /\ pc = "start" /\ paper = NoPaper /\ ai = 0
    /\ sinks = [s \in SinkNames |-> NoWriter]
    /\ unique = EmptyUnique
    /\ log = <<>> /\ nread = 0 /\ seen = <<>> /\ exc = None
    /\ WriterUnused /\ SourceIdle /\ GenerateIdle

\* what a loop body leaves behind: its sinks, sets and log, and where the
\* driver goes next (the traceback ends the process when it raised)
Leave(st, next) ==
    /\ sinks' = st.s /\ unique' = st.u /\ log' = st.l
    /\ exc' = st.e
    /\ pc' = IF st.e = None THEN next ELSE "crashed"

Now == St(sinks, unique, log, None)

\* lines 120-245: the DictWriters with their headers, and the empty sets
OpenSinks ==
    /\ pc = "start"
    /\ sinks' = [s \in SinkNames |-> OpenSink(s, RunBatchSize)]
    /\ unique' = EmptyUnique
    /\ pc' = "loop"
    /\ UNCHANGED <<paper, ai, log, nread, seen, exc, wvars, svars, xvars>>

\* line 246: the source yields the next record
NextPaper ==
    /\ pc = "loop" /\ nread < MaxRecords
    /\ \E r \in Records :
          /\ paper' = r
          /\ seen' = Append(seen, r)
    /\ nread' = nread + 1
    /\ pc' = "paper"
    /\ UNCHANGED <<ai, sinks, unique, log, exc, wvars, svars, xvars>>

\* the line that fails to decode skipped, the loop going on
OnDecodeErrorSkipLine(st) == st

\* json.loads raises inside the generator: nothing catches it
OnDecodeError(st) == Raise(st, "JSONDecodeError")

\* line 246: the source reads a line json.loads cannot decode
DecodeError ==
    /\ pc = "loop" /\ nread < MaxRecords
    /\ nread' = nread + 1
    /\ Leave(OnDecodeError(Now), "loop")
    /\ UNCHANGED <<paper, ai, seen, wvars, svars, xvars>>

\* the Publication row written only for a paperId no earlier record had
PaperRowOncePerId ==
    /\ pc = "paper"
    /\ Leave(IF paper.url = Missing THEN Raise(Now, "KeyError")
             ELSE IF \E i \in 1 .. Len(seen) - 1 : seen[i].paperId = paper.paperId THEN Now
             ELSE [Now EXCEPT !.s = WriteRow(@, "papers",
                                             [paperID |-> paper.paperId, url |-> paper.url,
                                              year |-> paper.year])],
             "fields")
    /\ UNCHANGED <<paper, ai, nread, seen, wvars, svars, xvars>>

\* lines 247-260: papers.writerow(...); paper["url"] raises on an absent key
PaperRow ==
    /\ pc = "paper"
    /\ Leave(IF paper.url = Missing THEN Raise(Now, "KeyError")
             ELSE [Now EXCEPT !.s = WriteRow(@, "papers",
                                             [paperID |-> paper.paperId, url |-> paper.url,
                                              year |-> paper.year])],
             "fields")
    /\ UNCHANGED <<paper, ai, nread, seen, wvars, svars, xvars>>

\* lines 261-265: the fieldsOfStudy loop; iterating None raises
FieldsOfStudy ==
    /\ pc = "fields"
    /\ Leave(IF paper.fieldsOfStudy.tag = "None" THEN Raise(Now, "TypeError")
             ELSE FieldLoop(Now, paper.paperId, paper.fieldsOfStudy.items),
             "authors")
    /\ ai' = 1
    /\ UNCHANGED <<paper, nread, seen, wvars, svars, xvars>>

\* lines 266-286: one author entry
AuthorEntry ==
    /\ pc = "authors" /\ ai <= Len(paper.authors)
    /\ Leave(AuthorStep(Now, paper.paperId, paper.authors[ai]), "authors")
    /\ ai' = ai + 1
    /\ UNCHANGED <<paper, nread, seen, wvars, svars, xvars>>

\* lines 287-288: after the authors loop
MainAuthor ==
    /\ pc = "authors" /\ ai > Len(paper.authors)
    /\ Leave(MainAuthorStep(Now, paper), "venue")
    /\ UNCHANGED <<paper, ai, nread, seen, wvars, svars, xvars>>

\* lines 290-378: the venue of the record, then back to the loop header
VenueRows ==
    /\ pc = "venue"
    /\ Leave(VenueStep(Now, paper), "loop")
    /\ UNCHANGED <<paper, ai, nread, seen, wvars, svars, xvars>>

\* lines 380-383: the source is exhausted
Finish ==
    /\ pc = "loop"
    /\ log' = log \o << Success("Dataset files prepared successfully"),
                        Warning("The following objects could not be extracted"),
                        Warning("- City of a conference/workshop"),
                        Warning("- Review details") >>
    /\ pc' = "done"
    /\ UNCHANGED <<paper, ai, sinks, unique, nread, seen, exc, wvars, svars, xvars>>

Next ==
    \/ OpenSinks \/ NextPaper \/ DecodeError \/ PaperRow \/ FieldsOfStudy
    \/ AuthorEntry \/ MainAuthor \/ VenueRows \/ Finish

Spec == Init /\ [][Next]_vars

\* ================================================================ reading the output
RECURSIVE Concat(_)
Concat(files) == IF files = <<>> THEN <<>> ELSE Head(files) \o Concat(Tail(files))

IsData(line) == ~line.header

\* the data rows of a writer's batch files, in batch order
DataRows(w) == SelectSeq(Concat(w.files), IsData)

\* the rows of one sink of the papers run, in the order of the files
Rows(s) == LET d == DataRows(sinks[s]) IN [i \in 1 .. Len(d) |-> d[i].row]

\* how often x occurs in a sequence
Occurrences(seq, x) == Cardinality({i \in 1 .. Len(seq) : seq[i] = x})

Range(seq) == {seq[i] : i \in 1 .. Len(seq)}

\* the driver stands between two records (all delivered ones went through)
AtBoundary == pc \in {"loop", "done"}

\* ================================================================ BatchedWriter claims
\* file number a line of the writer of SpecWriter landed in, by ordinal
CeilDiv(i, b) == (i + b - 1) \div b

\* C2: for every batch file but the last, the number of data rows (header not
\* counted) equals batch_size, for any batch_size >= 1.
BatchSizeInvariant ==
    (bw.made /\ bw.batch_size >= 1) =>
        \A f \in 1 .. (Len(bw.files) - 1) :
            Len(SelectSeq(bw.files[f], IsData)) = bw.batch_size

\* C3, state part: while the writer is open the i-th write call is found in
\* file ceil(i / batch_size), at the place its order gives; the files are
\* numbered 1..batch_number without gaps; after a write the record counter is
\* between 1 and batch_size and counts the lines of the current file.
RolloverState ==
    (bw.made /\ bw.batch_size >= 1) =>
        /\ Len(bw.files) = bw.batch_number
        /\ \A f \in 1 .. Len(bw.files) : \A j \in 1 .. Len(bw.files[f]) :
              LET i == bw.files[f][j].row[1]
              IN  /\ f = CeilDiv(i, bw.batch_size)
                  /\ i = (f - 1) * bw.batch_size + j
        /\ ~bw.is_closed => Len(Concat(bw.files)) = wcalls
        /\ bw.current_batch_size = Len(bw.files[bw.batch_number])
        /\ Len(Concat(bw.files)) >= 1 => (1 <= bw.current_batch_size /\ bw.current_batch_size <= bw.batch_size)

\* C3, step part: a single write rolls over exactly when the current file
\* already holds batch_size lines; the rollover advances the batch number by
\* one, leaves the full file as it was and the new line is the first of the
\* new file; nothing but a write changes the batch number.
RolloverStep ==
    (bw.made /\ bw.batch_size >= 1) =>
        LET n == bw.batch_number
            full == Len(bw.files[n]) = bw.batch_size
            wrote1 == wcalls' = wcalls + 1 /\ wres' = "ok"
        IN  /\ (wrote1 /\ full) =>
                  /\ bw'.batch_number = n + 1
                  /\ bw'.current_batch_size = 1
                  /\ bw'.files[n] = bw.files[n]
                  /\ Len(bw'.files[n + 1]) = 1
                  /\ bw'.files[n + 1][1].row[1] = wcalls + 1
            /\ (wrote1 /\ ~full) =>
                  /\ bw'.batch_number = n
                  /\ bw'.current_batch_size = bw.current_batch_size + 1
                  /\ Len(bw'.files[n]) = Len(bw.files[n]) + 1
                  /\ bw'.files[n][Len(bw.files[n]) + 1].row[1] = wcalls + 1
            /\ wcalls' = wcalls => bw'.batch_number = n

\* C3: rollover happens exactly when a write meets a full file, and before
\* that line is written, so write i lands in file ceil(i / batch_size).
RolloverOrdering == []RolloverState /\ [][RolloverStep]_vars

\* C3 witness: a writer of batch size 2 that has rolled over twice
RolloverWitness ==
    bw.made /\ bw.batch_size = 2 /\ bw.batch_number = 3 /\ wcalls = 5 /\ ~bw.is_closed

\* ================================================================ papers-pass claims
\* ---------------------------------------------------------------- keys
\* keys of the node rows written so far, per entity type, in file order
PublicationKeys == [i \in 1 .. Len(Rows("papers")) |-> Rows("papers")[i].paperID]
AuthorKeys == [i \in 1 .. Len(Rows("authors")) |-> Rows("authors")[i].authorID]
OrganizationKeys == [i \in 1 .. Len(Rows("organizations")) |-> Rows("organizations")[i].name]
FieldOfStudyKeys == [i \in 1 .. Len(Rows("fieldsofstudy")) |-> Rows("fieldsofstudy")[i].name]
JournalKeys == [i \in 1 .. Len(Rows("journals")) |-> Rows("journals")[i].journalID]
JournalVolumeKeys ==
    [i \in 1 .. Len(Rows("journalvolumes")) |-> Rows("journalvolumes")[i].journalVolumeID]
ConferenceKeys == [i \in 1 .. Len(Rows("conferences")) |-> Rows("conferences")[i].conferenceID]
WorkshopKeys == [i \in 1 .. Len(Rows("workshops")) |-> Rows("workshops")[i].workshopID]
ProceedingsKeys ==
    [i \in 1 .. Len(Rows("proceedings")) |-> Rows("proceedings")[i].proceedingsID]

\* keys a record gives rise to, per entity type (as written on the rows)
NamedAuthors(r) == {r.authors[i] : i \in {j \in 1 .. Len(r.authors) : r.authors[j].authorId # None}}
AuthorKeysOf(r) == {a.authorId : a \in NamedAuthors(r)}
OrganizationKeysOf(r) == UNION {Range(a.affiliations) : a \in NamedAuthors(r)}
FieldOfStudyKeysOf(r) == Range(r.fieldsOfStudy.items)
JournalKeysOf(r) ==
    IF r.publicationVenue.type = "journal" THEN {r.publicationVenue.id} ELSE {}
JournalVolumeKeysOf(r) ==
    IF r.publicationVenue.type = "journal"
    THEN {JsonDumps(<<r.publicationVenue.id, r.journal.volume>>)} ELSE {}
ConferenceKeysOf(r) ==
    IF r.publicationVenue.type = "conference" THEN {r.publicationVenue.id} ELSE {}
WorkshopKeysOf(r) ==
    IF r.publicationVenue.type = "workshop" THEN {r.publicationVenue.id} ELSE {}
ProceedingsKeysOf(r) ==
    IF r.publicationVenue.type \in {"conference", "workshop"}
    THEN {JsonDumps(<<r.publicationVenue.id, r.year>>)} ELSE {}

\* no key twice among the rows, and one row for each key of a delivered record
OncePerKey(rowkeys, keys) ==
    /\ \A i, j \in 1 .. Len(rowkeys) : rowkeys[i] = rowkeys[j] => i = j
    /\ AtBoundary => \A k \in keys : Occurrences(rowkeys, k) = 1

\* the eight entity types that have a unique_* set
DedupedTypesOnce ==
    /\ OncePerKey(AuthorKeys, UNION {AuthorKeysOf(r) : r \in Range(seen)})
    /\ OncePerKey(OrganizationKeys, UNION {OrganizationKeysOf(r) : r \in Range(seen)})
    /\ OncePerKey(FieldOfStudyKeys, UNION {FieldOfStudyKeysOf(r) : r \in Range(seen)})
    /\ OncePerKey(JournalKeys, UNION {JournalKeysOf(r) : r \in Range(seen)})
    /\ OncePerKey(JournalVolumeKeys, UNION {JournalVolumeKeysOf(r) : r \in Range(seen)})
    /\ OncePerKey(ConferenceKeys, UNION {ConferenceKeysOf(r) : r \in Range(seen)})
    /\ OncePerKey(WorkshopKeys, UNION {WorkshopKeysOf(r) : r \in Range(seen)})
    /\ OncePerKey(ProceedingsKeys, UNION {ProceedingsKeysOf(r) : r \in Range(seen)})

\* C1 as stated: every entity type, Publication included, has exactly one
\* node row for a key that two records give rise to.
DedupInvariantAllTypes ==
    /\ DedupedTypesOnce
    /\ OncePerKey(PublicationKeys, {seen[i].paperId : i \in 1 .. Len(seen)})

\* C1 amended: the eight deduplicated types have at most one node row per key
\* at any time and exactly one for every key of the records processed; the
\* Publication rows are one per record, duplicates of a paperId included.
DedupInvariant ==
    /\ DedupedTypesOnce
    /\ AtBoundary => PublicationKeys = [i \in 1 .. Len(seen) |-> seen[i].paperId]

\* C1 witness: two processed records share an author, an organization, a field
\* of study, a journal and a journal volume
DedupWitness ==
    /\ pc = "done" /\ nread = 2
    /\ AuthorKeysOf(seen[1]) \cap AuthorKeysOf(seen[2]) # {}
    /\ OrganizationKeysOf(seen[1]) \cap OrganizationKeysOf(seen[2]) # {}
    /\ FieldOfStudyKeysOf(seen[1]) \cap FieldOfStudyKeysOf(seen[2]) # {}
    /\ JournalVolumeKeysOf(seen[1]) \cap JournalVolumeKeysOf(seen[2]) # {}
    /\ seen[1].paperId # seen[2].paperId

\* ---------------------------------------------------------------- C4
\* C4: every batch file of every sink, the files opened by a rollover
\* included, starts with the header row and holds only data rows after it.
EveryFileStartsWithHeader ==
    \A s \in SinkNames :
        sinks[s].made =>
            \A f \in 1 .. Len(sinks[s].files) :
                LET file == sinks[s].files[f]
                IN  /\ file # <<>>
                    /\ file[1].header
                    /\ \A j \in 2 .. Len(file) : ~file[j].header

\* ---------------------------------------------------------------- C5
EdgeEnds(s, field, nodekeys) ==
    \A i \in 1 .. Len(Rows(s)) : Rows(s)[i][field] \in Range(nodekeys)

\* every edge but MainAuthor has both ends among the node rows
EdgesButMainAuthorComplete ==
    /\ EdgeEnds("hasfieldofstudy", "paperID", PublicationKeys)
    /\ EdgeEnds("hasfieldofstudy", "fieldOfStudy", FieldOfStudyKeys)
    /\ EdgeEnds("wrote", "paperID", PublicationKeys)
    /\ EdgeEnds("wrote", "authorID", AuthorKeys)
    /\ EdgeEnds("isaffiliatedwith", "authorID", AuthorKeys)
    /\ EdgeEnds("isaffiliatedwith", "organization", OrganizationKeys)
    /\ EdgeEnds("ispublishedinjournal", "paperID", PublicationKeys)
    /\ EdgeEnds("ispublishedinjournal", "journalVolumeID", JournalVolumeKeys)
    /\ EdgeEnds("ispublishedinproceedings", "paperID", PublicationKeys)
    /\ EdgeEnds("ispublishedinproceedings", "proceedingsID", ProceedingsKeys)
    /\ EdgeEnds("iseditionofjournal", "journalVolumeID", JournalVolumeKeys)
    /\ EdgeEnds("iseditionofjournal", "journalID", JournalKeys)
    /\ EdgeEnds("iseditionofconference", "proceedingsID", ProceedingsKeys)
    /\ EdgeEnds("iseditionofconference", "conferenceID", ConferenceKeys)
    /\ EdgeEnds("iseditionofworkshop", "proceedingsID", ProceedingsKeys)
    /\ EdgeEnds("iseditionofworkshop", "workshopID", WorkshopKeys)
    /\ EdgeEnds("isheldin", "proceedingsID", ProceedingsKeys)

\* C5: at the end of a papers run that completes, both ends of every edge row
\* are keys of node rows of the run (the city of IsHeldIn excepted).
ReferentialCompleteness ==
    pc = "done" =>
        /\ EdgesButMainAuthorComplete
        /\ EdgeEnds("mainauthor", "paperID", PublicationKeys)
        /\ EdgeEnds("mainauthor", "authorID", AuthorKeys)

\* ---------------------------------------------------------------- C6
MainAuthorPapers ==
    [i \in 1 .. Len(Rows("mainauthor")) |-> Rows("mainauthor")[i].paperID]

\* one MainAuthor row per record whose author list is not empty, none for a
\* record whose list is empty: that record ends the run with IndexError
MainAuthorIffAuthors ==
    /\ pc \in {"venue", "loop", "done"} =>
          /\ \A i \in 1 .. Len(seen) : seen[i].authors # <<>>
          /\ MainAuthorPapers = [i \in 1 .. Len(seen) |-> seen[i].paperId]
    /\ (pc = "crashed" /\ exc = "IndexError") =>
          /\ paper.authors = <<>>
          /\ MainAuthorPapers = [i \in 1 .. Len(seen) - 1 |-> seen[i].paperId]

\* C6: a MainAuthor row exists for a record iff its author list is not empty,
\* it never carries a null authorID and points at an emitted Author; a record
\* with an empty author list yields no row or ends the run with an error.
MainAuthorEdge ==
    /\ MainAuthorIffAuthors
    /\ \A i \in 1 .. Len(Rows("mainauthor")) :
          /\ Rows("mainauthor")[i].authorID # None
          /\ Rows("mainauthor")[i].authorID \in Range(AuthorKeys)

\* ---------------------------------------------------------------- C7
\* the author entries before index n that carry an id
NamedBefore(p, n) ==
    SelectSeq(SubSeq(p.authors, 1, n - 1), LAMBDA a : a.authorId # None)

\* C7, state part: inside the authors loop the Wrote rows end with one row per
\* entry with an id passed so far, in order; entries after a null one included.
NamedAuthorsProcessed ==
    pc = "authors" =>
        LET named == NamedBefore(paper, ai)
            w == Rows("wrote")
        IN  /\ Len(w) >= Len(named)
            /\ \A j \in 1 .. Len(named) :
                  w[Len(w) - Len(named) + j]
                      = [paperID |-> paper.paperId, authorID |-> named[j].authorId]
            /\ \A i \in 1 .. Len(Rows("authors")) : Rows("authors")[i].authorID # None
            /\ \A i \in 1 .. Len(w) : w[i].authorID # None
            /\ \A i \in 1 .. Len(Rows("isaffiliatedwith")) :
                  Rows("isaffiliatedwith")[i].authorID # None

\* C7, step part: the step over an entry whose authorId is null writes no
\* row to any sink, leaves the unique_* sets alone, records one warning and
\* goes on to the next entry.
NullAuthorStep ==
    (pc = "authors" /\ ai <= Len(paper.authors) /\ paper.authors[ai].authorId = None) =>
        /\ sinks' = sinks
        /\ unique' = unique
        /\ log' = Append(log, Warning("Author ID is None for author"))
        /\ pc' = "authors" /\ ai' = ai + 1 /\ exc' = None

\* C7: an author entry with a null id gives no Author, Wrote or
\* IsAffiliatedWith row and one warning, and the other entries are processed.
NullAuthorSkip == []NamedAuthorsProcessed /\ [][NullAuthorStep]_vars

\* C7 witness: the first entry was null and skipped, the second was written
NullAuthorWitness ==
    /\ pc = "authors" /\ ai = 3
    /\ paper.authors[1].authorId = None /\ paper.authors[2].authorId = "a1"
    /\ Len(log) = 1
    /\ Rows("wrote") = <<[paperID |-> paper.paperId, authorID |-> "a1"]>>

\* ---------------------------------------------------------------- C8
Unwritten(names) == \A s \in names : sinks'[s] = sinks[s]

VenueSinks ==
    { "journals", "journalvolumes", "conferences", "workshops", "proceedings",
      "ispublishedinjournal", "ispublishedinproceedings", "iseditionofjournal",
      "iseditionofconference", "iseditionofworkshop", "isheldin" }

\* C8, step part: the venue step of a journal record leaves the conference,
\* workshop and proceedings sinks alone, that of a conference record the
\* journal, journal volume and workshop sinks, that of a workshop record the
\* journal, journal volume and conference sinks; no other step of a record
\* writes a venue row.
VenueBranchStep ==
    /\ (pc = "venue" /\ paper.publicationVenue.type = "journal") =>
          Unwritten({"conferences", "workshops", "proceedings",
                     "ispublishedinproceedings", "iseditionofconference",
                     "iseditionofworkshop", "isheldin"})
    /\ (pc = "venue" /\ paper.publicationVenue.type = "conference") =>
          Unwritten({"journals", "journalvolumes", "workshops"})
    /\ (pc = "venue" /\ paper.publicationVenue.type = "workshop") =>
          Unwritten({"journals", "journalvolumes", "conferences"})
    /\ pc \in {"paper", "fields", "authors"} => Unwritten(VenueSinks)

\* C8: the venue rows of a record belong to the one branch its venue type names.
VenueBranchExclusive == [][VenueBranchStep]_vars

\* C8 witness: a conference record has gone through its venue step and left
\* its Conference and Proceedings rows, after a journal record did the same
VenueBranchWitness ==
    /\ pc = "loop" /\ nread = 2
    /\ seen[1].publicationVenue.type = "journal"
    /\ seen[2].publicationVenue.type = "conference"
    /\ Len(Rows("journals")) = 1 /\ Len(Rows("journalvolumes")) = 1
    /\ Len(Rows("conferences")) = 1 /\ Len(Rows("proceedings")) = 1
    /\ Len(Rows("workshops")) = 0

\* ---------------------------------------------------------------- C9
KnownVenueTypes == {"journal", "conference", "workshop"}

\* the venue step of a record whose venue type is none of the three (or
\* that has no venue) writes no venue row, records a warning and goes on to
\* the next record, the Publication, Author and FieldOfStudy rows being kept.
UnknownVenueStep ==
    (pc = "venue" /\ paper.publicationVenue.type \notin KnownVenueTypes) =>
        /\ Unwritten(SinkNames)
        /\ pc' = "loop"
        /\ Len(log') = Len(log) + 1
        /\ log'[Len(log')].level = "WARNING"

\* C9: every venue step of a record with an unrecognized or absent venue type
\* writes no venue row, records a warning and returns to the loop.
UnknownVenueWarned == [][UnknownVenueStep]_vars

\* ---------------------------------------------------------------- C10
\* the anomalies C10 lists, on the record in hand
ListedAnomaly(p) ==
    \/ \E i \in 1 .. Len(p.authors) : p.authors[i].authorId = None
    \/ p.publicationVenue.type \notin KnownVenueTypes
    \/ p.journal.tag # "obj"
    \/ p.journal.pages = Missing
    \/ p.fieldsOfStudy.tag # "list"
    \/ p.url = Missing

\* C10: no listed anomaly of a decoded record ends the run: a run only stops
\* on a line that does not decode or on a record that has none of them.
AnomaliesNeverAbort == (pc = "crashed" /\ exc # "JSONDecodeError") => ~ListedAnomaly(paper)

\* ---------------------------------------------------------------- C11
\* venue ids and years of the records read so far
SeenVenueIds == {seen[i].publicationVenue.id : i \in 1 .. Len(seen)} \ {None}
SeenYears == {seen[i].year : i \in 1 .. Len(seen)}

\* the places in the input of the records that use venue id V
UsersOf(V) == {i \in 1 .. Len(seen) : seen[i].publicationVenue.id = V}

\* V is used by conference records of year Y and by no other record
ConferenceOnly(V, Y) ==
    /\ UsersOf(V) # {}
    /\ \A i \in UsersOf(V) : IsConference(seen[i].publicationVenue) /\ seen[i].year = Y

\* the rows of sink s whose column col holds x
RowsWith(s, col, x) == {i \in 1 .. Len(Rows(s)) : Rows(s)[i][col] = x}

\* one Conference row for V, one Proceedings row and one IsEditionOfConference
\* row for (V, Y), and one IsPublishedInProceedings row for each record using V
ConferenceCounts(V, Y) ==
    /\ Cardinality(RowsWith("conferences", "conferenceID", V)) = 1
    /\ Cardinality(RowsWith("proceedings", "proceedingsID", JsonDumps(<<V, Y>>))) = 1
    /\ Cardinality(RowsWith("iseditionofconference", "proceedingsID", JsonDumps(<<V, Y>>))) = 1
    /\ Cardinality(RowsWith("ispublishedinproceedings", "proceedingsID", JsonDumps(<<V, Y>>)))
         = Cardinality(UsersOf(V))
    /\ \A i \in UsersOf(V) :
          \E k \in RowsWith("ispublishedinproceedings", "proceedingsID", JsonDumps(<<V, Y>>)) :
             Rows("ispublishedinproceedings")[k].paperID = seen[i].paperId

\* on the runs no record of which raised, the counts are the claimed ones
ConferenceCountsWhenCompleted ==
    AtBoundary =>
        \A V \in SeenVenueIds, Y \in SeenYears : ConferenceOnly(V, Y) => ConferenceCounts(V, Y)

\* C11: whenever the run is between records or has ended, a venue id V used
\* only by conference records of one year Y has one Conference row, one
\* Proceedings row, one IsEditionOfConference row and one
\* IsPublishedInProceedings row per record.
ConferenceEditionCounts ==
    pc \in {"loop", "done", "crashed"} =>
        \A V \in SeenVenueIds, Y \in SeenYears : ConferenceOnly(V, Y) => ConferenceCounts(V, Y)

\* ================================================================ citations pass
\* the value of "contextsWithIntent": a list of contexts, or the key absent
CtxList(items) == [tag |-> "list", items |-> items]
CtxMissing == [tag |-> "Missing", items |-> <<>>]

\* a decoded citation record: the paperId of citingPaper and of citedPaper,
\* "isInfluential" ("True", or Missing) and "contextsWithIntent"
Citation(citing, cited, influential, contexts) ==
    [citingPaper |-> citing, citedPaper |-> cited,
     isInfluential |-> influential, contextsWithIntent |-> contexts]
NoCitation == Citation(None, None, None, CtxMissing)

Citations ==
    { Citation("A", "B", inf, ctx) :
        inf \in {Missing, "True"}, ctx \in {CtxMissing, CtxList(<<"c1">>)} }

\* a line of an input file: one that json.loads decodes to a record, or one
\* it raises on
Line(rec) == [ok |-> TRUE, rec |-> rec]
Malformed == [ok |-> FALSE, rec |-> NoCitation]
CitationLines == {Line(c) : c \in Citations} \cup {Malformed}

\* the lines flat cut into Len(cuts) + 1 files at the places cuts
Split(flat, cuts) ==
    LET from(i) == IF i = 1 THEN 1 ELSE cuts[i - 1] + 1
        to(i) == IF i = Len(cuts) + 1 THEN Len(flat) ELSE cuts[i]
    IN  [i \in 1 .. Len(cuts) + 1 |-> SubSeq(flat, from(i), to(i))]

\* the lists of input files a run may be given (sys.argv order): one file at
\* least, files possibly empty
InputFiles ==
    UNION { { Split(flat, cuts) :
                cuts \in { c \in [1 .. f - 1 -> 0 .. Len(flat)] :
                             \A i \in 1 .. f - 2 : c[i] <= c[i + 1] } } :
            flat \in UNION {[1 .. n -> CitationLines] : n \in 0 .. MaxInputLines},
            f \in 1 .. MaxFiles }

\* the generator moving on to the next file with its first line skipped
RECURSIVE SourceSkipFirstLine(_, _, _)
SourceSkipFirstLine(files, f, l) ==
    IF f > Len(files) \/ l < Len(files[f]) THEN <<f, l>>
    ELSE SourceSkipFirstLine(files, f + 1, 1)

\* yieldFromFiles resumed: the file in hand while it has a line left, else the
\* next file from its start; past the last file the generator ends
RECURSIVE SourceSkip(_, _, _)
SourceSkip(files, f, l) ==
    IF f > Len(files) \/ l < Len(files[f]) THEN <<f, l>>
    ELSE SourceSkip(files, f + 1, 0)

\* the generator has no line left to read
SourceExhausted == SourceSkip(input_files, fi, li)[1] > Len(input_files)

\* the line the generator reads next
SourceLine ==
    LET pos == SourceSkip(input_files, fi, li) IN input_files[pos[1]][pos[2] + 1]

\* the generator's place after that read
SourceAdvance ==
    LET pos == SourceSkip(input_files, fi, li) IN fi' = pos[1] /\ li' = pos[2] + 1

\* fieldnames= of the citations DictWriter
CitationFieldNames == <<"citedPaperID", "citingPaperID", "isInfluential", "contextsWithIntent">>

\* json.dumps of a list: the text, token by token
JsonDumpsList(items) == <<"[">> \o items \o <<"]">>

\* citation.get("isInfluential", False)
GetIsInfluential(citation) ==
    IF citation.isInfluential = Missing THEN "False" ELSE citation.isInfluential

\* the dict handed to writer.writerow
CitesRow(citation) ==
    [citedPaperID |-> citation.citedPaper, citingPaperID |-> citation.citingPaper,
     isInfluential |-> GetIsInfluential(citation),
     contextsWithIntent |-> JsonDumpsList(citation.contextsWithIntent.items)]

\* BatchedWriter.__exit__ at the end of the with-block: close()
ExitWith(sk) == [s \in DOMAIN sk |-> BWClose(sk[s])]

InitCitations ==
    /\ pc = "cstart" /\ input_files \in InputFiles /\ fi = 1 /\ li = 0
    /\ paper = NoCitation /\ ai = 0 /\ unique = <<>>
    /\ sinks = [s \in {"citations"} |-> NoWriter]
    /\ log = <<>> /\ nread = 0 /\ seen = <<>> /\ exc = None
    /\ WriterUnused /\ GenerateIdle

\* lines 105-109: the with-block entered, DictWriter made, writeheader()
CitOpen ==
    /\ pc = "cstart"
    /\ sinks' = [s \in {"citations"} |->
                   BWWrite(BWNew(RunBatchSize), HeaderLine(CitationFieldNames))]
    /\ pc' = "cloop"
    /\ UNCHANGED <<paper, ai, unique, log, nread, seen, exc, wvars, svars, xvars>>

\* line 110: the generator yields the next decoded record
CitNext ==
    /\ pc = "cloop" /\ ~SourceExhausted /\ SourceLine.ok
    /\ SourceAdvance /\ nread' = nread + 1
    /\ paper' = SourceLine.rec /\ seen' = Append(seen, SourceLine.rec)
    /\ pc' = "crow"
    /\ UNCHANGED <<ai, sinks, unique, log, exc, input_files, wvars, xvars>>

\* line 110: json.loads raises in the generator; the exception leaves the
\* with-block, which closes the writer
CitDecodeError ==
    /\ pc = "cloop" /\ ~SourceExhausted /\ ~SourceLine.ok
    /\ SourceAdvance /\ nread' = nread + 1
    /\ exc' = "JSONDecodeError" /\ sinks' = ExitWith(sinks)
    /\ pc' = "crashed"
    /\ UNCHANGED <<paper, ai, unique, log, seen, input_files, wvars, xvars>>

\* lines 111-118: writer.writerow; citation["contextsWithIntent"] raises
\* KeyError for a record without the key
CitRow ==
    /\ pc = "crow"
    /\ IF paper.contextsWithIntent.tag = "Missing"
       THEN exc' = "KeyError" /\ sinks' = ExitWith(sinks) /\ pc' = "crashed"
       ELSE exc' = exc /\ sinks' = WriteRow(sinks, "citations", CitesRow(paper))
                       /\ pc' = "cloop"
    /\ UNCHANGED <<paper, ai, unique, log, nread, seen, wvars, svars, xvars>>

\* line 110: the generator ends; the with-block is left and closes the writer
CitFinish ==
    /\ pc = "cloop" /\ SourceExhausted
    /\ fi' = SourceSkip(input_files, fi, li)[1] /\ li' = SourceSkip(input_files, fi, li)[2]
    /\ sinks' = ExitWith(sinks)
    /\ pc' = "done"
    /\ UNCHANGED <<paper, ai, unique, log, nread, seen, exc, input_files, wvars, xvars>>

NextCitations == CitOpen \/ CitNext \/ CitDecodeError \/ CitRow \/ CitFinish

SpecCitations == InitCitations /\ [][NextCitations]_vars

\* ---------------------------------------------------------------- C12
\* the row the claim gives a citation record
ClaimedCitesRow(c) ==
    [citedPaperID |-> c.citedPaper, citingPaperID |-> c.citingPaper,
     isInfluential |-> IF c.isInfluential = Missing THEN "False" ELSE c.isInfluential]

\* C12: whenever the citations run is between records or has ended, the Cites
\* rows are one per citation record read, in input order, citing and cited ids
\* in their columns and isInfluential "False" for a record without the field,
\* whether or not the record has "contextsWithIntent".
CitesRowPerRecord ==
    pc \in {"cloop", "done", "crashed"} =>
        /\ Len(Rows("citations")) = Len(seen)
        /\ \A i \in 1 .. Len(seen) :
              /\ Rows("citations")[i].citedPaperID = ClaimedCitesRow(seen[i]).citedPaperID
              /\ Rows("citations")[i].citingPaperID = ClaimedCitesRow(seen[i]).citingPaperID
              /\ Rows("citations")[i].isInfluential = ClaimedCitesRow(seen[i]).isInfluential

\* the same of the records that have "contextsWithIntent", on the runs whose
\* records all have it
CitesRowPerRecordWithContexts ==
    (/\ pc \in {"cloop", "done", "crashed"}
     /\ \A i \in 1 .. Len(seen) : seen[i].contextsWithIntent.tag = "list") =>
        /\ Len(Rows("citations")) = Len(seen)
        /\ \A i \in 1 .. Len(seen) : Rows("citations")[i] = CitesRow(seen[i])

\* ---------------------------------------------------------------- C13
\* C13: when a run has ended, by completing its pass or by an exception raised
\* on a record, every writer the driver constructed is closed: _is_closed is
\* true and its current batch file is closed.
WritersClosedAtExit ==
    pc \in {"done", "crashed"} =>
        \A s \in DOMAIN sinks :
            sinks[s].made => sinks[s].is_closed /\ ~sinks[s].output_open

\* ---------------------------------------------------------------- C14
\* C14: no writer is ever constructed with a batch size of zero or less, and
\* no data row is in any batch file of such a writer.
NonPositiveBatchFatal ==
    /\ ~(bw.made /\ bw.batch_size <= 0)
    /\ bw.batch_size <= 0 => DataRows(bw) = <<>>

\* what a writer of batch size zero or less does: every write call rolls over
\* first, so batch file 1 stays empty and each line is alone in its file
NonPositiveBatchOneLinePerFile ==
    (bw.made /\ bw.batch_size <= 0) =>
        /\ bw.files[1] = <<>>
        /\ \A k \in 2 .. Len(bw.files) : Len(bw.files[k]) = 1

\* ---------------------------------------------------------------- C15
\* C15: a writer constructed with the template "edges-citations.csv", which
\* has no "{batch}" in it, gets ValueError from the constructor; no writer
\* object comes to exist, no batch file is opened or created and no write
\* call is ever made on it.
MissingPlaceholderFails ==
    wfile = "edges-citations.csv" =>
        /\ wop = "init" /\ wres = "ValueError"
        /\ ~bw.made /\ ~bw.output_open /\ bw.files = <<>>
        /\ bw = NoWriter /\ wcalls = 0

\* the constructor was called with the template without placeholder and raised
MissingPlaceholderWitness ==
    wfile = "edges-citations.csv" /\ wop = "init" /\ wres = "ValueError"

\* ---------------------------------------------------------------- C17
\* the lines of the input, file after file in the order of the file list
AllLines == Concat(input_files)

\* the number of lines in the files before file f
LinesBefore(f) == Len(Concat(SubSeq(input_files, 1, f - 1)))

\* C17: at every moment of a citations run the records delivered so far are
\* the first lines of the concatenated input, each once and in that order (the
\* i-th record delivered is the decoding of the i-th line); the generator has
\* read every line of the files before the file it is in and the first li
\* lines of that file, never more lines than the input has; the record in hand
\* is the last one delivered; and when the run completes every line of every
\* file has been delivered.
SourceOrder ==
    /\ nread <= Len(AllLines)
    /\ nread = LinesBefore(fi) + li
    /\ Len(seen) = IF exc = "JSONDecodeError" THEN nread - 1 ELSE nread
    /\ \A i \in 1 .. Len(seen) : AllLines[i] = Line(seen[i])
    /\ pc = "crow" => paper = seen[Len(seen)] /\ Len(Rows("citations")) = Len(seen) - 1
    /\ pc = "done" => Len(seen) = Len(AllLines) /\ fi = Len(input_files) + 1

\* a completed run over two files that start with different lines, three
\* lines together
SourceOrderWitness ==
    /\ pc = "done" /\ Len(input_files) = 2 /\ Len(seen) = 3
    /\ Len(input_files[1]) >= 1 /\ Len(input_files[2]) >= 1
    /\ input_files[1][1] # input_files[2][1]

\* ---------------------------------------------------------------- C18
\* while no record has raised, the Publication rows are the records read, one
\* each and in input order; the record in hand has its row from the moment its
\* first statement has run
PublicationPerRecord ==
    /\ pc \in {"fields", "authors", "venue", "loop", "done"} =>
          /\ Len(Rows("papers")) = Len(seen)
          /\ \A i \in 1 .. Len(seen) : Rows("papers")[i].paperID = seen[i].paperId
    /\ pc = "paper" => Len(Rows("papers")) = Len(seen) - 1

\* taking a record from the source writes nothing, and the first step on a
\* record writes to no sink but papers
PublicationFirstStep ==
    /\ pc = "loop" => sinks' = sinks
    /\ pc = "paper" => \A s \in SinkNames \ {"papers"} : sinks'[s] = sinks[s]

\* C18: in a papers run that completes (and up to the record that raises in
\* one that does not) there is exactly one Publication row per input record,
\* and it is written before any other row of that record.
PublicationRowPerRecord == []PublicationPerRecord /\ [][PublicationFirstStep]_vars

\* a completed run over two records with the same paperId: two Publication rows
PublicationRowWitness ==
    /\ pc = "done" /\ Len(seen) = 2 /\ seen[1].paperId = seen[2].paperId
    /\ Len(Rows("papers")) = 2

\* ---------------------------------------------------------------- C19
\* the proceedingsID column of a sink, row by row
ProceedingsIdsOf(s) == [i \in 1 .. Len(Rows(s)) |-> Rows(s)[i].proceedingsID]

\* every IsHeldIn row has a null city
HeldInCityNull == \A i \in 1 .. Len(Rows("isheldin")) : Rows("isheldin")[i].city = None

\* when the run is between records or has ended, the IsHeldIn rows are one per
\* Proceedings row, in the same order
HeldInPerProceedings ==
    pc \in {"loop", "done", "crashed"} =>
        ProceedingsIdsOf("isheldin") = ProceedingsIdsOf("proceedings")

\* C19: every IsHeldIn row, of a conference and of a workshop alike, has a
\* null city, and there is exactly one IsHeldIn row per Proceedings row
\* whatever else the record holds.
HeldInNullCity == HeldInCityNull /\ HeldInPerProceedings

\* the conference branch alone does as claimed: among the records read so far
\* none is a workshop record
HeldInNullCityConference ==
    (\A i \in 1 .. Len(seen) : ~IsWorkshop(seen[i].publicationVenue)) => HeldInNullCity

\* ---------------------------------------------------------------- C20
\* nread counts the lines read and seen holds the records decoded: a line has
\* failed to decode when there are more lines read than records.  Then the run
\* has ended with the decoder's exception, that line is the last one read, and
\* the log holds no success message.
MalformedLineEndsRun ==
    nread > Len(seen) =>
        /\ pc = "crashed" /\ exc = "JSONDecodeError"
        /\ nread = Len(seen) + 1
        /\ \A i \in 1 .. Len(log) : log[i].level # "SUCCESS"

\* no step is taken once a line has failed to decode, and the step reading
\* that line writes no row and adds no key to any set
MalformedLineStep ==
    /\ nread = Len(seen)
    /\ (nread' = nread + 1 /\ seen' = seen) => (sinks' = sinks /\ unique' = unique)

\* C20: when the k-th line read by a papers run cannot be decoded the run ends
\* with an error: no row is written for line k, no later line is read or
\* processed and no success is logged.
MalformedLineFatal == []MalformedLineEndsRun /\ [][MalformedLineStep]_vars

\* the second line fails to decode after the first record was processed
MalformedLineWitness ==
    /\ pc = "crashed" /\ exc = "JSONDecodeError"
    /\ nread = 2 /\ Len(seen) = 1 /\ Len(Rows("papers")) = 1

\* ---------------------------------------------------------------- C21
\* the composite keys, as tuples, of the venue records read so far
JournalVolumeTuples ==
    { <<seen[i].publicationVenue.id, seen[i].journal.volume>> :
        i \in {j \in 1 .. Len(seen) : IsJournal(seen[j].publicationVenue)} }
ProceedingsTuples ==
    { <<seen[i].publicationVenue.id, seen[i].year>> :
        i \in {j \in 1 .. Len(seen) : IsConference(seen[j].publicationVenue)
                                        \/ IsWorkshop(seen[j].publicationVenue)} }

\* the surrogate keys on the edge rows that point to a JournalVolume, and on
\* those that point to a Proceedings
JournalVolumeEdgeKeys ==
    UNION { {Rows(s)[i].journalVolumeID : i \in 1 .. Len(Rows(s))} :
            s \in {"iseditionofjournal", "ispublishedinjournal"} }
ProceedingsEdgeKeys ==
    UNION { {Rows(s)[i].proceedingsID : i \in 1 .. Len(Rows(s))} :
            s \in {"iseditionofconference", "iseditionofworkshop", "isheldin",
                   "ispublishedinproceedings"} }

RegistryKeys ==
    [fields_of_study |-> unique.fields_of_study,
     author_ids |-> unique.author_ids,
     organization_names |-> unique.organization_names,
     journal_ids |-> unique.journal_ids,
     journal_volume_ids |-> {JsonDumps(t) : t \in unique.journal_volume_ids},
     conference_ids |-> unique.conference_ids,
     workshop_ids |-> unique.workshop_ids,
     proceedings_ids |-> {JsonDumps(t) : t \in unique.proceedings_ids}]

\* the keys of the node rows written so far, by the name of the type's set
NodeKeys ==
    [fields_of_study |-> FieldOfStudyKeys,
     author_ids |-> AuthorKeys,
     organization_names |-> OrganizationKeys,
     journal_ids |-> JournalKeys,
     journal_volume_ids |-> JournalVolumeKeys,
     conference_ids |-> ConferenceKeys,
     workshop_ids |-> WorkshopKeys,
     proceedings_ids |-> ProceedingsKeys]

\* each set holds exactly the keys of the node rows of its type
RegistryIsOutput ==
    pc \in {"loop", "paper", "fields", "authors", "venue", "done", "crashed"} =>
        \A t \in DOMAIN RegistryKeys : RegistryKeys[t] = Range(NodeKeys[t])

\* a step removes no key from a set, and adds as many keys to a set as it
\* appends node rows to the sink of that type
RegistryGrows ==
    pc # "start" =>
        \A t \in DOMAIN RegistryKeys :
            /\ unique[t] \subseteq unique'[t]
            /\ Cardinality(unique'[t] \ unique[t]) = Len(NodeKeys[t])' - Len(NodeKeys[t])

\* C22: from the opening of the sinks on, so at every record boundary, each
\* unique_* set equals the set of keys of the node rows of its type; the sets
\* only grow, and a key enters a set in the step that writes its node row.
RegistryConsistency == []RegistryIsOutput /\ [][RegistryGrows]_vars

\* between two records, with an author, an organization, a field of study, a
\* journal and a journal volume in their sets and on their node rows
RegistryWitness ==
    /\ pc = "loop" /\ Len(seen) = 1
    /\ unique.author_ids # {} /\ unique.organization_names # {}
    /\ unique.fields_of_study # {} /\ unique.journal_volume_ids # {}
    /\ Len(AuthorKeys) = Cardinality(unique.author_ids)

\* ---------------------------------------------------------------- C23
\* C23: for every batch size of 1 or more, the batch files of a writer read
\* one after the other in batch order are the lines handed to write(), each
\* once and in call order (the i-th line is the line of the i-th call), all
\* of them while the writer is open: what one file without batches holds.
ConcatIsWrittenLines ==
    (bw.made /\ bw.batch_size >= 1) =>
        /\ \A i \in 1 .. Len(Concat(bw.files)) : Concat(bw.files)[i].row = <<i>>
        /\ \A i \in 2 .. Len(Concat(bw.files)) : ~Concat(bw.files)[i].header
        /\ ~bw.is_closed => Len(Concat(bw.files)) = wcalls
        /\ Len(Concat(bw.files)) <= wcalls

\* five lines written through a writer of batch size 2: three batch files
ConcatWitness ==
    /\ bw.made /\ bw.batch_size = 2 /\ ~bw.is_closed
    /\ wcalls = 5 /\ Len(bw.files) = 3 /\ Len(Concat(bw.files)) = 5

\* ---------------------------------------------------------------- C24
\* the IsEditionOf rows of either type that carry the proceedings key k
EditionRowsOf(k) ==
    Cardinality(RowsWith("iseditionofconference", "proceedingsID", k))
      + Cardinality(RowsWith("iseditionofworkshop", "proceedingsID", k))

\* the Proceedings keyed k is an edition of the node V of the venue type
EditionOfVenue(k, venue) ==
    IF IsConference(venue)
    THEN \E i \in RowsWith("iseditionofconference", "proceedingsID", k) :
            Rows("iseditionofconference")[i].conferenceID = venue.id
    ELSE \E i \in RowsWith("iseditionofworkshop", "proceedingsID", k) :
            Rows("iseditionofworkshop")[i].workshopID = venue.id

\* every Proceedings row has one IsEditionOf row and one IsHeldIn row
ProceedingsEdgesOnce ==
    \A k \in Range(ProceedingsKeys) :
        EditionRowsOf(k) = 1 /\ Cardinality(RowsWith("isheldin", "proceedingsID", k)) = 1

\* the Proceedings a conference or workshop record is published in is an
\* edition of that record's own venue node
PublishedInOwnVenue ==
    \A i \in 1 .. Len(seen) :
        (IsConference(seen[i].publicationVenue) \/ IsWorkshop(seen[i].publicationVenue)) =>
            EditionOfVenue(JsonDumps(<<seen[i].publicationVenue.id, seen[i].year>>),
                           seen[i].publicationVenue)

\* C24: between records and at the end of a run, every Proceedings row has
\* exactly one IsEditionOf row and one IsHeldIn row, and the Proceedings of
\* every conference or workshop record read has an IsEditionOf row to the
\* node of that record's venue type and id.
SharedProceedings == AtBoundary => (ProceedingsEdgesOnce /\ PublishedInOwnVenue)

\* the same where no (venue id, year) is met under both venue types
SharedProceedingsOneType ==
    (/\ AtBoundary
     /\ \A i, j \in 1 .. Len(seen) :
           (/\ IsConference(seen[i].publicationVenue) /\ IsWorkshop(seen[j].publicationVenue)
            /\ seen[i].publicationVenue.id = seen[j].publicationVenue.id)
               => seen[i].year # seen[j].year)
        => (ProceedingsEdgesOnce /\ PublishedInOwnVenue)

\* ---------------------------------------------------------------- C25
\* right after close() the writer is closed, and a closed writer has no open
\* batch file
ClosedState ==
    /\ wop = "close" => (bw.is_closed /\ wres = "ok")
    /\ bw.is_closed => ~bw.output_open

\* on a closed writer every call leaves the writer as it is, batch number,
\* record counter and files included, and still closed; write and writelines
\* raise ValueError, close raises nothing
ClosedStep ==
    bw.is_closed =>
        /\ bw' = bw
        /\ wop' \in {"write", "writelines"} => wres' = "ValueError"
        /\ wop' = "close" => wres' = "ok"

PreparedFiles(fieldnames, rows, b) ==
    BWWriteLines(BWNew(b),
                 <<HeaderLine(fieldnames)>> \o [i \in 1 .. Len(rows) |-> RowLine(rows[i])]).files

\* the authors of the k-th paper of a prepared output whose papers have nw
\* authors each, out of n authors
AuthorOf(k, i, n) == ((k + i - 2) % n) + 1

\* nodes-papers-*.csv, nodes-authors-*.csv and edges-wrote-*.csv of a papers
\* run over np papers and n authors, written with batch size b
Prepared(np, n, nw, b) ==
    [papers |-> PreparedFiles(FieldNames("papers"), [k \in 1 .. np |-> [paperID |-> k]], b),
     authors |-> PreparedFiles(FieldNames("authors"), [a \in 1 .. n |-> [authorID |-> a]], b),
     wrote |-> PreparedFiles(FieldNames("wrote"),
                             [j \in 1 .. np * nw |->
                                [paperID |-> ((j - 1) \div nw) + 1,
                                 authorID |-> AuthorOf(((j - 1) \div nw) + 1,
                                                       ((j - 1) % nw) + 1, n)]], b)]

\* the batch sizes the prepared output was written with
PreparedBatchSizes == {RunBatchSize, DefaultBatchSize}

PreparedOutputs ==
    { Prepared(np, n, nw, b) :
        np \in 1 .. MaxPapers, n \in 1 .. MaxPool, nw \in 0 .. MaxCoauthors,
        b \in PreparedBatchSizes }

\* csv.DictReader(f): the first line gives the fieldnames, whatever it is;
\* every other line is a row keyed by them
DictReader(file) ==
    IF file = <<>> THEN <<>>
    ELSE [i \in 1 .. Len(file) - 1 |-> CsvRow(file[1].header, file[i + 1].row)]

\* generate.yieldFromFiles(files): the rows of the files in turn
YieldFromCsv(files) == Concat([f \in 1 .. Len(files) |-> DictReader(files[f])])

\* the rows the three generators of the reviews block yield
PaperRows == YieldFromCsv(prepared.papers)
AuthorRows == YieldFromCsv(prepared.authors)
WroteRows == YieldFromCsv(prepared.wrote)

\* "while last_author['paperID'] == paper_id": the authors collected, the
\* place of the authorship generator, last_author and the exception raised.
\* A row keyed by a data row has no 'paperID' key; StopIteration breaks out
\* and leaves last_author as it was.
RECURSIVE CollectAuthors(_, _, _, _)
CollectAuthors(pid, authors, w, last) ==
    IF ~last.ok THEN [authors |-> authors, wi |-> w, last |-> last, e |-> "KeyError"]
    ELSE IF last.row.paperID # pid
         THEN [authors |-> authors, wi |-> w, last |-> last, e |-> None]
    ELSE IF w >= Len(WroteRows)
         THEN [authors |-> authors \cup {last.row.authorID}, wi |-> w, last |-> last, e |-> None]
    ELSE CollectAuthors(pid, authors \cup {last.row.authorID}, w + 1, WroteRows[w + 1])

\* "reviewer not in reviewers and reviewer not in this_paper_authors"
Eligible(r) == r \notin reviewers /\ r \notin this_paper_authors

\* the rows "for reviewer in reviewers" writes, here in ascending order
RECURSIVE ReviewRows(_, _)
ReviewRows(rs, pid) ==
    IF rs = {} THEN <<>>
    ELSE LET r == CHOOSE x \in rs : \A y \in rs : x <= y
         IN  <<[authorID |-> r, paperID |-> pid]>> \o ReviewRows(rs \ {r}, pid)

\* the variables of the other specifications, unused by generate.py
PrepareIdle ==
    /\ paper = NoPaper /\ ai = 0 /\ sinks = <<>> /\ unique = <<>>
    /\ nread = 0 /\ seen = <<>> /\ WriterUnused /\ SourceIdle
prepvars == <<paper, ai, sinks, unique, nread, seen, wvars, svars>>

InitReviews ==
    /\ pc = "rstart" /\ log = <<>> /\ exc = None
    /\ prepared \in PreparedOutputs
    /\ author_pool = {} /\ wi = 0 /\ last_author = NoRow /\ pi = 0
    /\ paper_id = 0 /\ this_paper_authors = {} /\ num_reviews = 0 /\ reviewers = {}
    /\ reviewer = 0 /\ reviewed = <<>> /\ total_papers = 0 /\ total_reviews = 0
    /\ PrepareIdle /\ CitiesIdle /\ ConnectorIdle

\* lines 62-86: the three globs are not empty; the writer is opened and the
\* author pool read from the authors files; author["authorID"] raises
\* KeyError on a row keyed by a data row
RPool ==
    /\ pc = "rstart"
    /\ IF \E i \in 1 .. Len(AuthorRows) : ~AuthorRows[i].ok
       THEN exc' = "KeyError" /\ pc' = "crashed" /\ author_pool' = author_pool
       ELSE /\ author_pool' = {AuthorRows[i].row.authorID : i \in 1 .. Len(AuthorRows)}
            /\ exc' = exc /\ pc' = "rfirst"
    /\ UNCHANGED <<log, prepared, wi, last_author, pi, paper_id, this_paper_authors,
                   num_reviews, reviewers, reviewer, reviewed, total_papers,
                   total_reviews, prepvars, cvars, avars>>

\* lines 97-101: last_author = next(authorship_generator), exit(1) when the
\* wrote files hold no row
RFirstAuthor ==
    /\ pc = "rfirst"
    /\ IF WroteRows = <<>>
       THEN /\ log' = Append(log, [level |-> "ERROR",
                                   msg |-> "No authorship files found in the output directory"])
            /\ pc' = "exited" /\ UNCHANGED <<wi, last_author>>
       ELSE wi' = 1 /\ last_author' = WroteRows[1] /\ pc' = "rpaper" /\ log' = log
    /\ UNCHANGED <<exc, prepared, author_pool, pi, paper_id, this_paper_authors,
                   num_reviews, reviewers, reviewer, reviewed, total_papers,
                   total_reviews, prepvars, cvars, avars>>

\* lines 102-118: the next paper row, its authors collected from the wrote
\* rows, and num_reviews = random.randint(3, 5)
RNextPaper ==
    /\ pc = "rpaper" /\ pi < Len(PaperRows)
    /\ pi' = pi + 1 /\ total_papers' = total_papers + 1
    /\ LET row == PaperRows[pi + 1]
           c == CollectAuthors(row.row.paperID, {}, wi, last_author)
       IN  IF ~row.ok
           THEN /\ exc' = "KeyError" /\ pc' = "crashed"
                /\ UNCHANGED <<paper_id, this_paper_authors, wi, last_author, num_reviews,
                               reviewers>>
           ELSE /\ paper_id' = row.row.paperID
                /\ this_paper_authors' = c.authors /\ wi' = c.wi /\ last_author' = c.last
                /\ IF c.e # None
                   THEN exc' = c.e /\ pc' = "crashed" /\ UNCHANGED <<num_reviews, reviewers>>
                   ELSE /\ num_reviews' \in 3 .. 5 /\ reviewers' = {}
                        /\ exc' = exc /\ pc' = "rpick"
    /\ UNCHANGED <<log, prepared, author_pool, reviewer, reviewed, total_reviews, prepvars, cvars, avars>>

\* line 120: reviewer = random.choice(author_pool)
RPick(r) ==
    /\ pc = "rpick" /\ r \in author_pool
    /\ reviewer' = r /\ pc' = "rtest"
    /\ UNCHANGED <<log, exc, prepared, author_pool, wi, last_author, pi, paper_id,
                   this_paper_authors, num_reviews, reviewers, reviewed, total_papers,
                   total_reviews, prepvars, cvars, avars>>

\* lines 119, 121-122: the reviewer is added when eligible, and the while
\* condition tested again
RTest ==
    /\ pc = "rtest"
    /\ reviewers' = IF Eligible(reviewer) THEN reviewers \cup {reviewer} ELSE reviewers
    /\ pc' = IF Cardinality(reviewers') < num_reviews THEN "rpick" ELSE "rwrite"
    /\ UNCHANGED <<log, exc, prepared, author_pool, wi, last_author, pi, paper_id,
                   this_paper_authors, num_reviews, reviewer, reviewed, total_papers,
                   total_reviews, prepvars, cvars, avars>>

\* lines 124-126: one Reviewed row per reviewer
RWrite ==
    /\ pc = "rwrite"
    /\ reviewed' = reviewed \o ReviewRows(reviewers, paper_id)
    /\ total_reviews' = total_reviews + Cardinality(reviewers)
    /\ pc' = "rpaper"
    /\ UNCHANGED <<log, exc, prepared, author_pool, wi, last_author, pi, paper_id,
                   this_paper_authors, num_reviews, reviewers, reviewer, total_papers,
                   prepvars, cvars, avars>>

\* line 128: the papers generator is exhausted; the final log line
RFinish ==
    /\ pc = "rpaper" /\ pi >= Len(PaperRows)
    /\ log' = Append(log, [level |-> "INFO", msg |-> <<"Generated", total_reviews,
                                                        "reviews for", total_papers, "papers">>])
    /\ pc' = "rdone"
    /\ UNCHANGED <<exc, rvars, prepvars, cvars, avars>>

NextReviews ==
    \/ RPool \/ RFirstAuthor \/ RNextPaper \/ (\E r \in 1 .. MaxPool : RPick(r))
    \/ RTest \/ RWrite \/ RFinish

SpecReviews == InitReviews /\ [][NextReviews]_vars

\* ---------------------------------------------------------------- C26
\* the reviews block has ended: final log line, exit(1) or an exception
ReviewsOver == pc \in {"rdone", "crashed", "exited"}

\* what the prepared output holds: its paper rows, its author rows and the
\* authors with a Wrote row for a paper
PreparedPaperIds ==
    {ln.row.paperID : ln \in Range(SelectSeq(Concat(prepared.papers), IsData))}
PreparedAuthorIds ==
    {ln.row.authorID : ln \in Range(SelectSeq(Concat(prepared.authors), IsData))}
PreparedAuthorsOf(pid) ==
    {ln.row.authorID :
        ln \in {l \in Range(SelectSeq(Concat(prepared.wrote), IsData)) : l.row.paperID = pid}}

\* the Reviewed rows written for a paper, and their reviewers
ReviewedRowsOf(pid) == {i \in 1 .. Len(reviewed) : reviewed[i].paperID = pid}
ReviewersOf(pid) == {reviewed[i].authorID : i \in ReviewedRowsOf(pid)}

ReviewsWellFormed(pid) ==
    /\ Cardinality(ReviewedRowsOf(pid)) \in 3 .. 5
    /\ Cardinality(ReviewersOf(pid)) = Cardinality(ReviewedRowsOf(pid))
    /\ ReviewersOf(pid) \subseteq PreparedAuthorIds
    /\ ReviewersOf(pid) \cap PreparedAuthorsOf(pid) = {}

\* C26: when the reviews block has ended, every paper row of the prepared
\* output, whatever the number of its batch files, has between 3 and 5
\* Reviewed rows, with pairwise distinct reviewers out of the author rows,
\* none of them an author of the paper.
ReviewsPerPaper ==
    ReviewsOver => \A pid \in PreparedPaperIds : ReviewsWellFormed(pid)

\* what does hold: over a prepared output of one batch file each, a run
\* that reaches its final log line has reviewed every paper as stated
ReviewsPerPaperOneBatch ==
    (pc = "rdone" /\ Len(prepared.papers) = 1 /\ Len(prepared.authors) = 1
                  /\ Len(prepared.wrote) = 1)
        => \A pid \in PreparedPaperIds : ReviewsWellFormed(pid)

\* ---------------------------------------------------------------- C27
\* the reviews block under fair random choice: the block keeps running while
\* it can, and a member of the pool that random.choice can return again and
\* again is returned again and again
SpecReviewsFair ==
    SpecReviews /\ WF_vars(NextReviews) /\ \A r \in 1 .. MaxPool : SF_vars(RPick(r))

\* a prepared output of one batch file each with at least one paper row,
\* one author row and one Wrote row
OneBatchEach ==
    /\ Len(prepared.papers) = 1 /\ Len(prepared.authors) = 1 /\ Len(prepared.wrote) = 1
    /\ PreparedPaperIds # {} /\ PreparedAuthorIds # {}
    /\ SelectSeq(Concat(prepared.wrote), IsData) # <<>>

\* the fewest members of the pool that are not authors of one paper
FewestEligible ==
    CHOOSE m \in 0 .. MaxPool :
        /\ \E pid \in PreparedPaperIds :
              Cardinality(PreparedAuthorIds \ PreparedAuthorsOf(pid)) = m
        /\ \A pid \in PreparedPaperIds :
              Cardinality(PreparedAuthorIds \ PreparedAuthorsOf(pid)) >= m

\* C27: over a prepared output with at least one paper, one author and one
\* Wrote row (here: of one batch file each), the reviews block under fair
\* random choice reaches its final log line, also when the pool without the
\* paper's own authors has fewer than 5 members.
ReviewsTerminate == (pc = "rstart" /\ OneBatchEach) ~> (pc = "rdone")

\* what does hold: the block reaches its final log line when every paper
\* leaves at least 5 members of the pool eligible
ReviewsTerminateLargePool ==
    (pc = "rstart" /\ OneBatchEach /\ FewestEligible >= 5) ~> (pc = "rdone")

\* the selection loop of a paper with fewer eligible members than
\* num_reviews is entered
SelectionStarved ==
    /\ pc = "rpick" /\ OneBatchEach
    /\ Cardinality(author_pool \ this_paper_authors) < num_reviews

\* ================================================================ generate.py: cities
\* the variables the cities block leaves alone
noncities == <<exc, rvars, avars, prepvars>>

CountryNames == {"Spain", "France"}
CityNames == {"Madrid", "Vigo"}

\* the lists of cities of a country of the response
CityLists == UNION { [1 .. n -> CityNames] : n \in 0 .. MaxCities }

\* a country of the response; the "cities" key is there (<<list>>) or not (<<>>)
Countries ==
    [country : CountryNames, cities : {<<>>} \cup { <<l>> : l \in CityLists }]

\* response.json(): no JSON at all, or the list under "data"
Responses ==
    {[json |-> FALSE, data |-> <<>>]} \cup
    { [json |-> TRUE, data |-> d] :
        d \in UNION { [1 .. n -> Countries] : n \in 0 .. MaxCountries } }

\* f"{country_name}/{city}"
CityName(country_name, city) == <<country_name, "/", city>>

InitCities ==
    /\ pc = "cities_fetch" /\ log = <<>> /\ exc = None
    /\ CitiesIdle /\ ReviewsIdle /\ ConnectorIdle /\ PrepareIdle

\* lines 134-144: a request that fails; after the fifth the run exits
CRequestFails ==
    /\ pc = "cities_fetch" /\ attempt < MaxAttempts
    /\ attempt' = attempt + 1
    /\ IF attempt + 1 = MaxAttempts
       THEN /\ log' = log \o <<[level |-> "WARNING", msg |-> "Error fetching data"],
                               [level |-> "ERROR",
                                msg |-> "Failed to fetch data from the API after 5 attempts."]>>
            /\ pc' = "exited"
       ELSE /\ log' = Append(log, [level |-> "WARNING", msg |-> "Error fetching data"])
            /\ pc' = pc
    /\ UNCHANGED <<response, ci, cj, cities, city_rows, noncities>>

\* lines 136-138: a request that succeeds, with any response
CRequestOk(r) ==
    /\ pc = "cities_fetch" /\ attempt < MaxAttempts
    /\ attempt' = attempt + 1 /\ response' = r /\ pc' = "cities_parse"
    /\ UNCHANGED <<log, ci, cj, cities, city_rows, noncities>>

\* lines 145-157: the response is decoded and checked, the writer opened and
\* the header written; cities = set()
CParse ==
    /\ pc = "cities_parse"
    /\ IF ~response.json
       THEN /\ log' = Append(log, [level |-> "ERROR",
                                   msg |-> "Failed to parse JSON response from the API."])
            /\ pc' = "exited" /\ ci' = ci
       ELSE IF response.data = <<>>
       THEN /\ log' = Append(log, [level |-> "ERROR",
                                   msg |-> "No data found in the API response."])
            /\ pc' = "exited" /\ ci' = ci
       ELSE log' = log /\ pc' = "cities_country" /\ ci' = 1
    /\ cities' = {} /\ city_rows' = <<>>
    /\ UNCHANGED <<attempt, response, cj, noncities>>

\* lines 158-164: the next country; only Spain, and only with a "cities"
\* key, is gone through
CCountry ==
    /\ pc = "cities_country" /\ ci <= Len(response.data)
    /\ LET country == response.data[ci]
       IN  IF country.country # "Spain" \/ country.cities = <<>> \/ country.cities[1] = <<>>
           THEN ci' = ci + 1 /\ cj' = cj /\ pc' = pc
           ELSE ci' = ci /\ cj' = 1 /\ pc' = "cities_city"
    /\ UNCHANGED <<log, attempt, response, cities, city_rows, noncities>>

\* lines 164-167: one city of the country: cities.add and writer.writerow
CCity ==
    /\ pc = "cities_city"
    /\ LET country == response.data[ci]
           city_name == CityName(country.country, country.cities[1][cj])
       IN  /\ cities' = cities \cup {city_name}
           /\ city_rows' = Append(city_rows, [name |-> city_name])
           /\ IF cj < Len(country.cities[1])
              THEN cj' = cj + 1 /\ ci' = ci /\ pc' = pc
              ELSE cj' = cj /\ ci' = ci + 1 /\ pc' = "cities_country"
    /\ UNCHANGED <<log, attempt, response, noncities>>

\* line 168: the countries are exhausted; the count is logged
CFinish ==
    /\ pc = "cities_country" /\ ci > Len(response.data)
    /\ log' = Append(log, [level |-> "INFO",
                           msg |-> <<"Generated", Cardinality(cities), "cities">>])
    /\ pc' = "cities_done"
    /\ UNCHANGED <<cvars, noncities>>

NextCities ==
    \/ CRequestFails \/ (\E r \in Responses : CRequestOk(r)) \/ CParse
    \/ CCountry \/ CCity \/ CFinish

SpecCities == InitCities /\ [][NextCities]_vars

\* ---------------------------------------------------------------- C28
\* the count the final log line of the cities block reports
ReportedCities == log[Len(log)].msg[2]

\* C28: when the cities block has logged its count, no city name is in two
\* City rows written, and the count logged is the number of City rows written.
CitiesOnce ==
    pc = "cities_done" =>
        /\ \A i, j \in 1 .. Len(city_rows) : city_rows[i] = city_rows[j] => i = j
        /\ ReportedCities = Len(city_rows)

\* what does hold: the count logged is the number of distinct names written
CitiesCountIsDistinctNames ==
    pc = "cities_done" => ReportedCities = Cardinality(Range(city_rows))

\* ================================================================ S2AcademicAPI.retrieve_citations
\* the variables the connector leaves alone
nonconnector == <<exc, rvars, cvars, prepvars>>

\* an optional value: a key that is absent or None, or a key with a value
Absent == <<>>
Some(x) == <<x>>

\* the citations of a paper are numbered from 0; a page of them holds the
\* citations lo .. hi - 1
Page(lo, hi) == [lo |-> lo, hi |-> hi]

Min(a, b) == IF a <= b THEN a ELSE b

\* the truth value Python gives an optional integer: None and 0 are false
Truthy(opt) == IF opt = Absent THEN FALSE ELSE opt[1] # 0

\* the servers asked: the number of citations of the paper, and the page
\* size used for a request that names no limit
CitationServers ==
    [total : (0 .. MaxOver) \cup
             {MAX_DATA_RETRIEVAL + d : d \in (0 - MaxOver) .. MaxOver},
     first : {1, MAX_BATCH_SIZE \div 10, MAX_BATCH_SIZE}]

\* self.get(f"paper/{paper_id}/citations", params): the page at the offset
\* (0 when not given), and "next" while citations remain after it
GetCitations(srv, offset, lim) ==
    LET off == IF offset = Absent THEN 0 ELSE offset[1]
        n == IF lim = Absent THEN srv.first ELSE lim[1]
    IN  [data |-> Page(Min(off, srv.total), Min(off + n, srv.total)),
         next |-> IF off + n < srv.total THEN Some(off + n) ELSE Absent]

\* "limit" of the requests after the first
PageLimit(next) == Min(MAX_BATCH_SIZE, MAX_DATA_RETRIEVAL - next - 1)

\* "yield from data['data']" when streaming, all_data.extend otherwise
Deliver(page) ==
    IF stream THEN yielded' = Append(yielded, page) /\ result' = result
    ELSE result' = Append(result, page) /\ yielded' = yielded

InitCitationPages ==
    /\ pc = "cp_start" /\ log = <<>> /\ exc = None
    /\ stream \in BOOLEAN /\ limit = Absent /\ server \in CitationServers
    /\ data = <<>> /\ requests = <<>> /\ yielded = <<>> /\ result = <<>> /\ returned = Absent
    /\ CitiesIdle /\ ReviewsIdle /\ PrepareIdle

\* lines 235-239: the first request, with neither offset nor limit
CPFirst ==
    /\ pc = "cp_start"
    /\ data' = GetCitations(server, Absent, Absent)
    /\ requests' = Append(requests, [offset |-> Absent, limit |-> Absent])
    /\ Deliver(data'.data)
    /\ pc' = "cp_loop"
    /\ UNCHANGED <<log, stream, limit, server, returned, nonconnector>>

\* lines 241-248: "next" has reached MAX_DATA_RETRIEVAL - 1: warning, break
CPWarn ==
    /\ pc = "cp_loop" /\ Truthy(data.next)
    /\ data.next[1] >= MAX_DATA_RETRIEVAL - 1
    /\ log' = Append(log, [level |-> "WARNING",
                           msg |-> <<"Citation count exceeds", MAX_DATA_RETRIEVAL,
                                     "Only the first", MAX_DATA_RETRIEVAL,
                                     "citations will be retrieved.">>])
    /\ pc' = "cp_end"
    /\ UNCHANGED <<avars, nonconnector>>

\* lines 241, 249-260: the page at "next" is asked for and delivered
CPPage ==
    /\ pc = "cp_loop" /\ Truthy(data.next)
    /\ data.next[1] < MAX_DATA_RETRIEVAL - 1
    /\ LET offset == Some(data.next[1])
           lim == Some(PageLimit(data.next[1]))
       IN  /\ data' = GetCitations(server, offset, lim)
           /\ requests' = Append(requests, [offset |-> offset, limit |-> lim])
    /\ Deliver(data'.data)
    /\ UNCHANGED <<pc, log, stream, limit, server, returned, nonconnector>>

\* lines 241, 261-262: the loop is over; "return all_data" when not streaming
CPReturn ==
    /\ \/ pc = "cp_end"
       \/ pc = "cp_loop" /\ ~Truthy(data.next)
    /\ returned' = IF stream THEN Absent ELSE Some(result)
    /\ pc' = "cp_done"
    /\ UNCHANGED <<log, stream, limit, server, data, requests, yielded, result, nonconnector>>

NextCitationPages == CPFirst \/ CPWarn \/ CPPage \/ CPReturn

SpecCitationPages == InitCitationPages /\ [][NextCitationPages]_vars

\* ---------------------------------------------------------------- C29
\* the pages retrieved: yielded when streaming, the list returned otherwise
RetrievedPages == IF stream THEN yielded ELSE returned[1]

\* the pages are the citations 0 .. n - 1 in order, none twice
RECURSIVE FirstCitations(_, _)
FirstCitations(pages, n) ==
    IF pages = <<>> THEN n = 0
    ELSE LET last == pages[Len(pages)]
         IN  /\ last.hi = n /\ last.lo <= last.hi
             /\ FirstCitations(SubSeq(pages, 1, Len(pages) - 1), last.lo)

Warned == \E i \in 1 .. Len(log) : log[i].level = "WARNING"

\* C29: for a paper with more than MAX_DATA_RETRIEVAL citations,
\* retrieve_citations ends with exactly the first MAX_DATA_RETRIEVAL
\* citations retrieved and a warning logged, and no request was issued with
\* offset + limit beyond MAX_DATA_RETRIEVAL.
CitationCap ==
    (pc = "cp_done" /\ server.total > MAX_DATA_RETRIEVAL) =>
        /\ FirstCitations(RetrievedPages, MAX_DATA_RETRIEVAL)
        /\ Warned
        /\ \A i \in 2 .. Len(requests) :
              requests[i].offset[1] + requests[i].limit[1] <= MAX_DATA_RETRIEVAL

\* what does hold: the citations retrieved are the first
\* MAX_DATA_RETRIEVAL - 1, or all of them when there are fewer; the warning
\* is logged from MAX_DATA_RETRIEVAL citations on; and no request goes
\* beyond offset + limit = MAX_DATA_RETRIEVAL - 1
CitationCapOneShort ==
    /\ pc = "cp_done" =>
          /\ FirstCitations(RetrievedPages, Min(server.total, MAX_DATA_RETRIEVAL - 1))
          /\ Warned <=> server.total >= MAX_DATA_RETRIEVAL
    /\ \A i \in 2 .. Len(requests) :
          requests[i].offset[1] + requests[i].limit[1] <= MAX_DATA_RETRIEVAL - 1

\* what does hold as well: against these servers, whose "next" offsets
\* strictly increase, the pagination ends
SpecCitationPagesFair == SpecCitationPages /\ WF_vars(NextCitationPages)
CitationPagesEnd == <>(pc = "cp_done")

\* ================================================================ S2AcademicAPI.bulk_retrieve_papers
\* the papers of a search are numbered from 1 in the order of the pages;
\* a server is the list of its result pages
RECURSIVE PagesOfSizes(_, _)
PagesOfSizes(sizes, from) ==
    IF sizes = <<>> THEN <<>>
    ELSE <<[k \in 1 .. Head(sizes) |-> from + k - 1]>>
         \o PagesOfSizes(Tail(sizes), from + Head(sizes))

SearchServers ==
    { PagesOfSizes(sizes, 1) :
        sizes \in UNION { [1 .. n -> 0 .. MaxPageSize] : n \in 1 .. MaxPages } }

Limits == {Absent} \cup { Some(l) : l \in 0 .. MaxLimit }

\* self.get("paper/search/bulk", params): the page the token stands for
\* (the first without one), and a token while pages remain after it
GetPapers(srv, token) ==
    LET i == IF token = Absent THEN 1 ELSE token[1]
    IN  [data |-> srv[i], token |-> IF i < Len(srv) THEN Some(i + 1) ELSE Absent]

\* seq[0:n]
Take(seq, n) == SubSeq(seq, 1, Min(n, Len(seq)))

\* "result[:limit] if limit else result"
Truncate(res, lim) == IF Truthy(lim) THEN Take(res, lim[1]) ELSE res

\* lines 156-160, 166-170: the part of a page that is yielded; total_yielded
\* is the number of papers yielded so far
YieldPage(page) ==
    IF limit # Absent /\ Len(page) + Len(yielded) > limit[1]
    THEN Take(page, limit[1] - Len(yielded))
    ELSE page

\* lines 148, 163: "limit is not None and <papers so far> >= limit"
LimitReached(n) == IF limit = Absent THEN FALSE ELSE n >= limit[1]

InitPaperSearch ==
    /\ pc = "ps_start" /\ log = <<>> /\ exc = None
    /\ stream \in BOOLEAN /\ limit \in Limits /\ server \in SearchServers
    /\ data = <<>> /\ requests = <<>> /\ yielded = <<>> /\ result = <<>> /\ returned = Absent
    /\ CitiesIdle /\ ReviewsIdle /\ PrepareIdle

\* lines 145-146, 154-160: the first request
PSFirst ==
    /\ pc = "ps_start"
    /\ data' = GetPapers(server, Absent)
    /\ requests' = Append(requests, Absent)
    /\ IF stream THEN yielded' = YieldPage(data'.data) /\ result' = result
       ELSE result' = data'.data /\ yielded' = yielded
    /\ pc' = "ps_loop"
    /\ UNCHANGED <<log, stream, limit, server, returned, nonconnector>>

\* lines 147-151, 162-170: a token is there and the limit not reached: the
\* next page is asked for
PSPage ==
    /\ pc = "ps_loop" /\ data.token # Absent
    /\ ~LimitReached(IF stream THEN Len(yielded) ELSE Len(result))
    /\ data' = GetPapers(server, data.token)
    /\ requests' = Append(requests, data.token)
    /\ IF stream THEN yielded' = yielded \o YieldPage(data'.data) /\ result' = result
       ELSE result' = result \o data'.data /\ yielded' = yielded
    /\ UNCHANGED <<pc, log, stream, limit, server, returned, nonconnector>>

\* lines 147-149, 152, 162-164: no token, or the limit is reached: the loop
\* is over and the list returned when not streaming
PSReturn ==
    /\ pc = "ps_loop"
    /\ \/ data.token = Absent
       \/ LimitReached(IF stream THEN Len(yielded) ELSE Len(result))
    /\ returned' = IF stream THEN Absent ELSE Some(Truncate(result, limit))
    /\ pc' = "ps_done"
    /\ UNCHANGED <<log, stream, limit, server, data, requests, yielded, result, nonconnector>>

NextPaperSearch == PSFirst \/ PSPage \/ PSReturn

SpecPaperSearch == InitPaperSearch /\ [][NextPaperSearch]_vars

\* ---------------------------------------------------------------- C30
\* the papers obtained: yielded when streaming, the list returned otherwise
PapersObtained == IF stream THEN yielded ELSE returned[1]

\* all papers of the server, and those of its first n pages, in page order
AllPapers == Concat(server)
PapersOfPages(n) == Concat(SubSeq(server, 1, n))

PaperSearchOutcome ==
    /\ PapersObtained = (IF limit = Absent THEN AllPapers ELSE Take(AllPapers, limit[1]))
    /\ limit = Absent => Len(requests) = Len(server)
    /\ limit # Absent =>
          \A i \in 2 .. Len(requests) : Len(PapersOfPages(i - 1)) < limit[1]

\* C30: when bulk_retrieve_papers has ended, the papers yielded (stream) or
\* returned (no stream) are the first min(L, total) papers in page order for
\* a limit L >= 0, and all of them for limit None; no page was requested
\* after L papers had been obtained, and with limit None every page was.
PaperSearchLimit == pc = "ps_done" => PaperSearchOutcome

\* what does hold: the same for every call but the one with limit 0 and no
\* stream
PaperSearchLimitButZero ==
    (pc = "ps_done" /\ (stream \/ Truthy(limit) \/ limit = Absent)) => PaperSearchOutcome

====
